---- MODULE Spec2Model ----
(***************************************************************************)
(* Model of the batch job runner of tts-elevenlabs                         *)
(* (src/src/models/batch_processor.py): BatchItem, BatchProcessor and the  *)
(* worker loop BatchProcessor._process_batch.                              *)
(*                                                                         *)
(* The caller (the Tk main thread of src/src/ui/batch_tab.py) runs one     *)
(* BatchProcessor method at a time; every worker thread created by start() *)
(* runs _process_batch.  Threads interleave between the statements of the  *)
(* source, so a method whose statements the worker can observe one by one  *)
(* is split at those statements: cpc is the caller's position, pc[t] the   *)
(* position of worker thread t, both named after source line numbers.      *)
(***************************************************************************)
EXTENDS Integers, Sequences, FiniteSets, TLC

\* ------------------------------------------------------------- bounds
\* Number of add_item calls explored.
MaxItems == 2
\* Number of items of the one batch of SpecRun.
MaxBatch == 3
\* Number of successful start() calls (worker threads) explored.
MaxStarts == 2
\* Number of text chunks of an item's input file.
MaxChunks == 2
\* Longest text given to split_into_chunks and to preprocess_text, and largest
\* max_chunk_size.
MaxLen == 6
\* Longest text, and largest max_chunk_size, of the repeated calls of
\* split_into_chunks.
MaxText == 2
\* Number of times preprocess_text is applied to its own result.
MaxPasses == 2
\* Longest text, and largest max_chunk_size, of the calls of split_into_chunks
\* that are followed to their return.
MaxLive == 4

\* ---------------------------------------------------------- vocabulary
\* BatchItemStatus
PENDING == "pending"
PROCESSING == "processing"
COMPLETED == "completed"
FAILED == "failed"
CANCELLED == "cancelled"

Statuses == {PENDING, PROCESSING, COMPLETED, FAILED, CANCELLED}

\* What a call of processor_func(item, options) can do: return True, return
\* False, or raise an exception whose str() is one of Details.
Details == {"boom"}
Returns == {"true", "false"}

Threads == 1..MaxStarts
NoItem == 0
None == "None"

\* TextProcessor.__init__: max_chunk_size: int = 5000
DefaultChunkSize == 5000

VARIABLES
    obj,                    \* the BatchItem objects ever created, by identity
    items,                  \* self.items: list of item identities
    queue,                  \* self.queue: FIFO of item identities
    is_running,             \* self.is_running
    is_paused,              \* self.is_paused
    processor_func,         \* self.processor_func is set
    on_item_status_changed, \* self.on_item_status_changed is set
    on_batch_completed,     \* self.on_batch_completed is set
    processing_thread,      \* self.processing_thread: threads created so far
    pc,                     \* position of each worker thread
    local,                  \* locals of each worker: item, success, e, and the
                            \* chunk index i of the processor it is calling
    cpc,                    \* position of the caller inside a method
    ret,                    \* the last method the caller finished, its result
    outcome,                \* history: what the processor did for each item
    notified,               \* history: the status on_item_status_changed saw at the
                            \* last callback site run for the item ("nobody" if unset)
    completed_calls,        \* history: lines 201-202 of each thread: on_batch_completed
                            \* called, or skipped because no observer was set
    pause_item,             \* history: item in flight at the last pause()
    text,                   \* split_into_chunks: its argument
    max_chunk_size,         \* TextProcessor.max_chunk_size
    current_pos,            \* split_into_chunks: current_pos
    chunks,                 \* split_into_chunks: chunks
    tpc,                    \* position of the call of split_into_chunks
    slices,                 \* history: <<current_pos, chunk_end>> of each iteration
    remembered,             \* history: the text and the result of an earlier call
                            \* of split_into_chunks
    proc,                   \* locals of BatchTab._process_batch_item, per worker
    calls,                  \* history: the calls of api_client.text_to_speech
    files,                  \* the audio files written, by path
    cpc2,                   \* position of a second caller thread inside add_item
    pre,                    \* preprocess_text: the text given, the texts returned
    ser                     \* a BatchItem, its to_dict() and what from_dict makes of it

vars == <<obj, items, queue, is_running, is_paused, processor_func,
          on_item_status_changed, on_batch_completed, processing_thread,
          pc, local, cpc, ret, outcome, notified, completed_calls, pause_item,
          text, max_chunk_size, current_pos, chunks, tpc, slices,
          remembered, proc, calls, files, cpc2, pre, ser>>

runnerVars == <<obj, items, queue, is_running, is_paused, processor_func,
                on_item_status_changed, on_batch_completed>>
workerVars == <<processing_thread, pc, local>>
historyVars == <<outcome, notified, completed_calls, pause_item>>
chunkerVars == <<text, max_chunk_size, current_pos, chunks, tpc, slices>>
processorVars == <<proc, calls, files>>
converterVars == <<pre, ser>>

\* ------------------------------------------------------------ BatchItem
\* An item that is born PROCESSING
NewItem_Started == [status |-> PROCESSING, progress |-> 0, message |-> <<>>, error |-> None]
\* BatchItem.__init__
NewItem == [status |-> PENDING, progress |-> 0, message |-> <<>>, error |-> None]

\* f"Error: {str(e)}"
ErrorMessage(e) == <<"Error: ", e>>

\* BatchItem(input_file, output_file), lines 27-34
BatchItem(input_file, output_file) ==
    [input_file |-> input_file, output_file |-> output_file, status |-> PENDING,
     progress |-> 0, message |-> <<>>, error |-> None]

\* BatchItemStatus.<member>.value, lines 18-22
StatusValue(s) ==
    CASE s = PENDING -> "pending"
      [] s = PROCESSING -> "processing"
      [] s = COMPLETED -> "completed"
      [] s = FAILED -> "failed"
      [] s = CANCELLED -> "cancelled"

\* BatchItemStatus(value): the members that have this value; none is a
\* ValueError
StatusesOfValue(v) == {s \in Statuses : StatusValue(s) = v}

\* BatchItem.to_dict, lines 38-44
to_dict(item) ==
    [input_file |-> item.input_file, output_file |-> item.output_file,
     status |-> StatusValue(item.status), progress |-> item.progress,
     message |-> item.message]

\* A from_dict that reads the two file names only
from_dict_Fresh(data) == BatchItem(data.input_file, data.output_file)
\* BatchItem.from_dict, lines 49-53, for a status value that has a member
from_dict(data) ==
    [BatchItem(data.input_file, data.output_file) EXCEPT
        !.status = CHOOSE s \in StatusesOfValue(data.status) : TRUE,
        !.progress = data.progress,
        !.message = data.message]

Ids == 1..Len(obj)
StatusOf(i) == obj[i].status

NoLocal == [item |-> NoItem, success |-> None, e |-> None, i |-> 0]
\* The locals of _process_batch_item before its first statement
NoProc == [at |-> "L504", text_chunks |-> <<>>, i |-> 0, success |-> None,
           result |-> None, temp_files |-> <<>>]
\* No call of split_into_chunks is remembered
NoCall == [made |-> FALSE, text |-> <<>>, chunks |-> <<>>, others |-> FALSE]
Idle == [at |-> "idle", i |-> 0]
Returned(op, val) == [op |-> op, val |-> val]

\* The caller's calls are recorded (ret, pause_item) only in the
\* specifications that start with ret # Unobserved.
Unobserved == Returned("unobserved", None)
Observing == ret # Unobserved

\* A method returns val to the caller
Return(op, val) == ret' = IF Observing THEN Returned(op, val) ELSE ret

\* -------------------------------------------------------- construction
\* BatchProcessor.__init__
Constructed ==
    /\ obj = <<>>
    /\ items = <<>>
    /\ queue = <<>>
    /\ is_running = FALSE
    /\ is_paused = FALSE
    /\ processor_func = FALSE
    /\ on_item_status_changed = FALSE
    /\ on_batch_completed = FALSE
    /\ processing_thread = 0
    /\ pc = [t \in Threads |-> "idle"]
    /\ local = [t \in Threads |-> NoLocal]
    /\ cpc = Idle
    /\ cpc2 = Idle
    /\ outcome = <<>>
    /\ notified = <<>>
    /\ completed_calls = [t \in Threads |-> [called |-> 0, skipped |-> 0]]
    /\ pause_item = NoItem

\* TextProcessor.__init__ with its default max_chunk_size; no call of
\* split_into_chunks is going on
NotSplitting ==
    /\ text = <<>>
    /\ max_chunk_size = DefaultChunkSize
    /\ current_pos = 0
    /\ chunks = <<>>
    /\ tpc = "idle"
    /\ slices = <<>>
    /\ remembered = NoCall

\* No call of BatchTab._process_batch_item is going on, no synthesis has been
\* asked for and no audio file written
NotProcessing ==
    /\ proc = [t \in Threads |-> NoProc]
    /\ calls = <<>>
    /\ files = {}

\* No call of preprocess_text has been made
NoPre == [given |-> <<>>, returned |-> <<>>]
\* No BatchItem has been converted
NoSer == [item |-> <<>>, data |-> <<>>, back |-> <<>>, again |-> <<>>,
          raised |-> FALSE]

\* Neither preprocess_text nor BatchItem.to_dict / from_dict is in use
NotConverting ==
    /\ pre = NoPre
    /\ ser = NoSer

Init ==
    Constructed /\ NotProcessing /\ NotSplitting /\ NotConverting /\ ret = Unobserved
InitObserved ==
    /\ Constructed /\ NotProcessing /\ NotSplitting /\ NotConverting
    /\ ret = Returned("init", None)


\* ------------------------------------------------------------- helpers
SetStatus(o, i, s) == [o EXCEPT ![i].status = s]

\* on_item_status_changed(item): the observer sees the item as it is now.
Notify(i, o) ==
    [notified EXCEPT ![i] = IF on_item_status_changed THEN o[i].status
                                                      ELSE "nobody"]

\* The item a worker has handed to processor_func and not got back yet.
InFlight == {local[t].item : t \in {u \in Threads : pc[u] = "L176"}}

CallerIdle == cpc.at = "idle"

\* ------------------------------------------- caller: configuration
\* BatchProcessor.set_processor
set_processor ==
    /\ CallerIdle
    /\ processor_func' = TRUE
    /\ Return("set_processor", None)
    /\ UNCHANGED <<obj, items, queue, is_running, is_paused,
                   on_item_status_changed, on_batch_completed, cpc>>
    /\ UNCHANGED <<workerVars, historyVars>>
    /\ UNCHANGED <<chunkerVars, remembered, processorVars, cpc2>>
    /\ UNCHANGED converterVars

\* BatchProcessor.set_callbacks, with both observers given (batch_tab.py:37)
set_callbacks ==
    /\ CallerIdle
    /\ on_item_status_changed' = TRUE
    /\ on_batch_completed' = TRUE
    /\ Return("set_callbacks", None)
    /\ UNCHANGED <<obj, items, queue, is_running, is_paused, processor_func, cpc>>
    /\ UNCHANGED <<workerVars, historyVars>>
    /\ UNCHANGED <<chunkerVars, remembered, processorVars, cpc2>>
    /\ UNCHANGED converterVars

\* ------------------------------------------------ caller: the item list
\* BatchProcessor.add_item, lines 71-72: create the item, append it to items
add_item_append ==
    /\ CallerIdle
    /\ obj' = Append(obj, NewItem)
    /\ items' = Append(items, Len(obj) + 1)
    /\ outcome' = Append(outcome, None)
    /\ notified' = Append(notified, None)
    /\ cpc' = [at |-> "L73", i |-> Len(obj) + 1]
    /\ UNCHANGED <<queue, is_running, is_paused, processor_func,
                   on_item_status_changed, on_batch_completed, ret>>
    /\ UNCHANGED <<workerVars, completed_calls, pause_item>>
    /\ UNCHANGED <<chunkerVars, remembered, processorVars, cpc2>>
    /\ UNCHANGED converterVars

\* BatchProcessor.add_item, lines 73-74: queue.put(item); return item
add_item_put ==
    /\ cpc.at = "L73"
    /\ queue' = Append(queue, cpc.i)
    /\ Return("add_item", cpc.i)
    /\ cpc' = Idle
    /\ UNCHANGED <<obj, items, is_running, is_paused, processor_func,
                   on_item_status_changed, on_batch_completed>>
    /\ UNCHANGED <<workerVars, historyVars>>
    /\ UNCHANGED <<chunkerVars, remembered, processorVars, cpc2>>
    /\ UNCHANGED converterVars

\* add_item called by a second thread while the caller is inside a method of
\* its own: lines 71-72
add_item_append_concurrent ==
    /\ cpc2.at = "idle"
    /\ obj' = Append(obj, NewItem)
    /\ items' = Append(items, Len(obj) + 1)
    /\ outcome' = Append(outcome, None)
    /\ notified' = Append(notified, None)
    /\ cpc2' = [at |-> "L73", i |-> Len(obj) + 1]
    /\ UNCHANGED <<queue, is_running, is_paused, processor_func,
                   on_item_status_changed, on_batch_completed, cpc, ret>>
    /\ UNCHANGED <<workerVars, completed_calls, pause_item>>
    /\ UNCHANGED <<chunkerVars, remembered, processorVars>>
    /\ UNCHANGED converterVars

\* add_item called by a second thread: lines 73-74
add_item_put_concurrent ==
    /\ cpc2.at = "L73"
    /\ queue' = Append(queue, cpc2.i)
    /\ cpc2' = Idle
    /\ UNCHANGED <<obj, items, is_running, is_paused, processor_func,
                   on_item_status_changed, on_batch_completed, cpc, ret>>
    /\ UNCHANGED <<workerVars, historyVars>>
    /\ UNCHANGED <<chunkerVars, remembered, processorVars>>
    /\ UNCHANGED converterVars

\* A clear_completed that removes the FAILED items as well
KeptByClearCompleted_Unfinished(i) == StatusOf(i) \in {PENDING, PROCESSING}
\* The list comprehension of clear_completed
KeptByClearCompleted(i) == StatusOf(i) \notin {COMPLETED, CANCELLED}

\* BatchProcessor.clear_completed
clear_completed ==
    /\ CallerIdle
    /\ items' = SelectSeq(items, KeptByClearCompleted)
    /\ Return("clear_completed", None)
    /\ UNCHANGED <<obj, queue, is_running, is_paused, processor_func,
                   on_item_status_changed, on_batch_completed, cpc>>
    /\ UNCHANGED <<workerVars, historyVars>>
    /\ UNCHANGED <<chunkerVars, remembered, processorVars, cpc2>>
    /\ UNCHANGED converterVars

\* BatchProcessor.clear_all, lines 90-91: empty the queue under its mutex
clear_all_queue ==
    /\ CallerIdle
    /\ queue' = <<>>
    /\ cpc' = [at |-> "L92", i |-> 0]
    /\ UNCHANGED <<obj, items, is_running, is_paused, processor_func,
                   on_item_status_changed, on_batch_completed, ret>>
    /\ UNCHANGED <<workerVars, historyVars>>
    /\ UNCHANGED <<chunkerVars, remembered, processorVars, cpc2>>
    /\ UNCHANGED converterVars

\* BatchProcessor.clear_all, line 92: self.items = []
clear_all_items ==
    /\ cpc.at = "L92"
    /\ items' = <<>>
    /\ Return("clear_all", None)
    /\ cpc' = Idle
    /\ UNCHANGED <<obj, queue, is_running, is_paused, processor_func,
                   on_item_status_changed, on_batch_completed>>
    /\ UNCHANGED <<workerVars, historyVars>>
    /\ UNCHANGED <<chunkerVars, remembered, processorVars, cpc2>>
    /\ UNCHANGED converterVars


\* ------------------------------------------------- caller: run control
\* A start() that forgets to look for the processor
StartRefused_RunningOnly == is_running

\* The guard of start(), line 107
StartRefused == is_running \/ ~processor_func

\* BatchProcessor.start, lines 107-108: refused, nothing changes
start_refused ==
    /\ CallerIdle
    /\ StartRefused
    /\ Return("start", FALSE)
    /\ UNCHANGED <<runnerVars, workerVars, historyVars, cpc>>
    /\ UNCHANGED <<chunkerVars, remembered, processorVars, cpc2>>
    /\ UNCHANGED converterVars

\* BatchProcessor.start, lines 107-111: accepted, the flags are set
start_flags ==
    /\ CallerIdle
    /\ ~StartRefused
    /\ processing_thread < MaxStarts
    /\ is_running' = TRUE
    /\ is_paused' = FALSE
    /\ cpc' = [at |-> "L112", i |-> 0]
    /\ UNCHANGED <<obj, items, queue, processor_func,
                   on_item_status_changed, on_batch_completed, ret>>
    /\ UNCHANGED <<workerVars, historyVars>>
    /\ UNCHANGED <<chunkerVars, remembered, processorVars, cpc2>>
    /\ UNCHANGED converterVars

\* BatchProcessor.start, lines 112-118: the worker thread is created and
\* started on _process_batch; start returns True without waiting for it
start_thread ==
    /\ cpc.at = "L112"
    /\ processing_thread' = processing_thread + 1
    /\ pc' = [pc EXCEPT ![processing_thread + 1] = "L159"]
    /\ Return("start", TRUE)
    /\ cpc' = Idle
    /\ UNCHANGED <<runnerVars, local, historyVars>>
    /\ UNCHANGED <<chunkerVars, remembered, processorVars, cpc2>>
    /\ UNCHANGED converterVars

\* A pause() that refuses to pause a runner that is paused already
PauseRefused_WhenPaused == ~is_running \/ is_paused
\* The guard of pause(), line 122
PauseRefused == ~is_running

\* BatchProcessor.pause
pause ==
    /\ CallerIdle
    /\ IF PauseRefused
       THEN /\ Return("pause", FALSE)
            /\ UNCHANGED <<is_paused, pause_item>>
       ELSE /\ is_paused' = TRUE
            /\ Return("pause", TRUE)
            /\ pause_item' = IF Observing /\ InFlight # {}
                             THEN CHOOSE i \in InFlight : \A j \in InFlight : i <= j
                             ELSE NoItem
    /\ UNCHANGED <<obj, items, queue, is_running, processor_func,
                   on_item_status_changed, on_batch_completed, cpc>>
    /\ UNCHANGED <<workerVars, outcome, notified, completed_calls>>
    /\ UNCHANGED <<chunkerVars, remembered, processorVars, cpc2>>
    /\ UNCHANGED converterVars

\* The guard of resume(), line 130
ResumeRefused == ~is_running \/ ~is_paused

\* BatchProcessor.resume
resume ==
    /\ CallerIdle
    /\ IF ResumeRefused
       THEN /\ Return("resume", FALSE)
            /\ UNCHANGED is_paused
       ELSE /\ is_paused' = FALSE
            /\ Return("resume", TRUE)
    /\ UNCHANGED <<obj, items, queue, is_running, processor_func,
                   on_item_status_changed, on_batch_completed, cpc>>
    /\ UNCHANGED <<workerVars, historyVars>>
    /\ UNCHANGED <<chunkerVars, remembered, processorVars, cpc2>>
    /\ UNCHANGED converterVars

\* A cancel() that also goes ahead when the runner is paused or stopped
CancelRefused_Never == FALSE

\* The guard of cancel(), line 138
CancelRefused == ~is_running

\* BatchProcessor.cancel, lines 138-139: not running, nothing changes
cancel_refused ==
    /\ CallerIdle
    /\ CancelRefused
    /\ Return("cancel", FALSE)
    /\ UNCHANGED <<runnerVars, workerVars, historyVars, cpc>>
    /\ UNCHANGED <<chunkerVars, remembered, processorVars, cpc2>>
    /\ UNCHANGED converterVars

\* A cancel() that also takes the worker out of the call in flight
cancel_flags_Aborting ==
    /\ CallerIdle
    /\ ~CancelRefused
    /\ is_running' = FALSE
    /\ is_paused' = FALSE
    /\ pc' = [t \in Threads |-> IF pc[t] = "L176" THEN "L198" ELSE pc[t]]
    /\ cpc' = IF items = <<>> THEN [at |-> "L152", i |-> 0]
                              ELSE [at |-> "L145", i |-> 1]
    /\ UNCHANGED <<obj, items, queue, processor_func,
                   on_item_status_changed, on_batch_completed, ret>>
    /\ UNCHANGED <<processing_thread, local, historyVars>>
    /\ UNCHANGED <<chunkerVars, remembered, processorVars, cpc2>>
    /\ UNCHANGED converterVars

\* BatchProcessor.cancel, lines 141-142: the flags are cleared
cancel_flags ==
    /\ CallerIdle
    /\ ~CancelRefused
    /\ is_running' = FALSE
    /\ is_paused' = FALSE
    /\ cpc' = IF items = <<>> THEN [at |-> "L152", i |-> 0]
                              ELSE [at |-> "L145", i |-> 1]
    /\ UNCHANGED <<obj, items, queue, processor_func,
                   on_item_status_changed, on_batch_completed, ret>>
    /\ UNCHANGED <<workerVars, historyVars>>
    /\ UNCHANGED <<chunkerVars, remembered, processorVars, cpc2>>
    /\ UNCHANGED converterVars

\* The statuses cancel() overwrites, line 146
CancelMarks(s) == s \in {PENDING, PROCESSING}

\* BatchProcessor.cancel, lines 145-149: one iteration of the for loop
cancel_mark ==
    /\ cpc.at = "L145"
    /\ LET i == items[cpc.i] IN
         IF CancelMarks(StatusOf(i))
         THEN /\ obj' = SetStatus(obj, i, CANCELLED)
              /\ notified' = Notify(i, obj')
         ELSE UNCHANGED <<obj, notified>>
    /\ cpc' = IF cpc.i < Len(items) THEN [at |-> "L145", i |-> cpc.i + 1]
                                    ELSE [at |-> "L152", i |-> 0]
    /\ UNCHANGED <<items, queue, is_running, is_paused, processor_func,
                   on_item_status_changed, on_batch_completed, ret>>
    /\ UNCHANGED <<workerVars, outcome, completed_calls, pause_item>>
    /\ UNCHANGED <<chunkerVars, remembered, processorVars, cpc2>>
    /\ UNCHANGED converterVars

\* BatchProcessor.cancel, lines 152-155: the queue is emptied under its mutex
cancel_clear ==
    /\ cpc.at = "L152"
    /\ queue' = <<>>
    /\ Return("cancel", TRUE)
    /\ cpc' = Idle
    /\ UNCHANGED <<obj, items, is_running, is_paused, processor_func,
                   on_item_status_changed, on_batch_completed>>
    /\ UNCHANGED <<workerVars, historyVars>>
    /\ UNCHANGED <<chunkerVars, remembered, processorVars, cpc2>>
    /\ UNCHANGED converterVars

\* A get_stats() that has no branch for CANCELLED
Tally_NoCancelled(stats, s) ==
    IF s = PENDING THEN [stats EXCEPT !.pending = @ + 1]
    ELSE IF s = PROCESSING THEN [stats EXCEPT !.processing = @ + 1]
    ELSE IF s = COMPLETED THEN [stats EXCEPT !.completed = @ + 1]
    ELSE IF s = FAILED THEN [stats EXCEPT !.failed = @ + 1]
    ELSE stats

\* BatchProcessor.get_stats, lines 216-225: the if/elif chain on item.status
Tally(stats, s) ==
    IF s = PENDING THEN [stats EXCEPT !.pending = @ + 1]
    ELSE IF s = PROCESSING THEN [stats EXCEPT !.processing = @ + 1]
    ELSE IF s = COMPLETED THEN [stats EXCEPT !.completed = @ + 1]
    ELSE IF s = FAILED THEN [stats EXCEPT !.failed = @ + 1]
    ELSE IF s = CANCELLED THEN [stats EXCEPT !.cancelled = @ + 1]
    ELSE stats

\* BatchProcessor.get_stats, line 215: for item in self.items, from item k on
RECURSIVE StatsLoop(_, _)
StatsLoop(k, stats) ==
    IF k > Len(items) THEN stats
    ELSE StatsLoop(k + 1, Tally(stats, StatusOf(items[k])))

\* BatchProcessor.get_stats
get_stats ==
    StatsLoop(1, [total |-> Len(items), pending |-> 0, processing |-> 0,
                  completed |-> 0, failed |-> 0, cancelled |-> 0])


\* ------------------------------------ worker: BatchProcessor._process_batch
Goto(t, l) == pc' = [pc EXCEPT ![t] = l]

\* line 159, first conjunct of the loop condition
LoopRunning == is_running

\* line 159: while self.is_running ...
w_while_running(t) ==
    /\ pc[t] = "L159"
    /\ Goto(t, IF LoopRunning THEN "L159e" ELSE "L198")
    /\ UNCHANGED <<runnerVars, processing_thread, local, historyVars, cpc, ret>>
    /\ UNCHANGED <<chunkerVars, remembered, processorVars, cpc2>>
    /\ UNCHANGED converterVars

\* line 159: ... and not self.queue.empty()
w_while_empty(t) ==
    /\ pc[t] = "L159e"
    /\ Goto(t, IF queue # <<>> THEN "L161" ELSE "L198")
    /\ UNCHANGED <<runnerVars, processing_thread, local, historyVars, cpc, ret>>
    /\ UNCHANGED <<chunkerVars, remembered, processorVars, cpc2>>
    /\ UNCHANGED converterVars

\* lines 161-163: if self.is_paused: time.sleep(0.5); continue
w_if_paused(t) ==
    /\ pc[t] = "L161"
    /\ Goto(t, IF is_paused THEN "L159" ELSE "L166")
    /\ UNCHANGED <<runnerVars, processing_thread, local, historyVars, cpc, ret>>
    /\ UNCHANGED <<chunkerVars, remembered, processorVars, cpc2>>
    /\ UNCHANGED converterVars

\* A worker that reads the head of the queue and leaves it there
w_get_Peek(t) ==
    /\ pc[t] = "L166"
    /\ queue # <<>>
    /\ local' = [local EXCEPT ![t].item = Head(queue)]
    /\ Goto(t, "L168")
    /\ UNCHANGED <<runnerVars, processing_thread, historyVars, cpc, ret>>
    /\ UNCHANGED <<chunkerVars, remembered, processorVars, cpc2>>
    /\ UNCHANGED converterVars

\* line 166: item = self.queue.get(), which blocks while the queue is empty
w_get(t) ==
    /\ pc[t] = "L166"
    /\ queue # <<>>
    /\ local' = [local EXCEPT ![t].item = Head(queue)]
    /\ queue' = Tail(queue)
    /\ Goto(t, "L168")
    /\ UNCHANGED <<obj, items, is_running, is_paused, processor_func,
                   on_item_status_changed, on_batch_completed>>
    /\ UNCHANGED <<processing_thread, historyVars, cpc, ret>>
    /\ UNCHANGED <<chunkerVars, remembered, processorVars, cpc2>>
    /\ UNCHANGED converterVars

\* line 168: the status a dequeued item must have to be processed
ShouldProcess(i) == StatusOf(i) = PENDING

\* line 168: if item.status == BatchItemStatus.PENDING; otherwise line 195
w_if_pending(t) ==
    /\ pc[t] = "L168"
    /\ IF ShouldProcess(local[t].item)
       THEN Goto(t, "L170") /\ UNCHANGED local
       ELSE Goto(t, "L159") /\ local' = [local EXCEPT ![t] = NoLocal]
    /\ UNCHANGED <<runnerVars, processing_thread, historyVars, cpc, ret>>
    /\ UNCHANGED <<chunkerVars, remembered, processorVars, cpc2>>
    /\ UNCHANGED converterVars

\* line 170: item.status = BatchItemStatus.PROCESSING
w_set_processing(t) ==
    /\ pc[t] = "L170"
    /\ obj' = SetStatus(obj, local[t].item, PROCESSING)
    /\ Goto(t, "L171")
    /\ UNCHANGED <<items, queue, is_running, is_paused, processor_func,
                   on_item_status_changed, on_batch_completed>>
    /\ UNCHANGED <<processing_thread, local, historyVars, cpc, ret>>
    /\ UNCHANGED <<chunkerVars, remembered, processorVars, cpc2>>
    /\ UNCHANGED converterVars

\* lines 171-172, 181-182 and 188-189: the observer is told, if there is one
w_notify(t, from, to) ==
    /\ pc[t] = from
    /\ notified' = Notify(local[t].item, obj)
    /\ Goto(t, to)
    /\ UNCHANGED <<runnerVars, processing_thread, local, cpc, ret>>
    /\ UNCHANGED <<outcome, completed_calls, pause_item>>
    /\ UNCHANGED <<chunkerVars, remembered, processorVars, cpc2>>
    /\ UNCHANGED converterVars

\* lines 171-172 and 188-189: the observer is called and raises.  Neither
\* call is inside the try block (line 172 comes before it, line 189 is in
\* its except clause), so the exception leaves _process_batch and the thread
\* ends with it.
w_notify_raises(t, from) ==
    /\ pc[t] = from
    /\ on_item_status_changed
    /\ notified' = Notify(local[t].item, obj)
    /\ Goto(t, "raised")
    /\ UNCHANGED <<runnerVars, processing_thread, local, cpc, ret>>
    /\ UNCHANGED <<outcome, completed_calls, pause_item>>
    /\ UNCHANGED <<chunkerVars, remembered, processorVars, cpc2>>
    /\ UNCHANGED converterVars

\* lines 181-183: the observer is called inside the try block and raises:
\* the except clause of line 183 catches its exception as e
w_notify_caught(t) ==
    /\ pc[t] = "L181"
    /\ on_item_status_changed
    /\ notified' = Notify(local[t].item, obj)
    /\ \E d \in Details : local' = [local EXCEPT ![t].e = d]
    /\ Goto(t, "L185")
    /\ UNCHANGED <<runnerVars, processing_thread, cpc, ret>>
    /\ UNCHANGED <<outcome, completed_calls, pause_item>>
    /\ UNCHANGED <<chunkerVars, remembered, processorVars, cpc2>>
    /\ UNCHANGED converterVars

\* What the processor of batch_tab.py writes to its item for chunk i of n
\* (lines 548-549): int((i / n) * 100) and the "part i+1/n" message
ChunkProgress(i, n) == (i * 100) \div n
ChunkMessage(i, n) == <<"part", i + 1, n>>

\* line 176, inside processor_func: BatchTab._process_batch_item starts the
\* next chunk of the item's text and writes the item's progress and message
\* (batch_tab.py lines 546-549)
process_item_chunk(t) ==
    /\ pc[t] = "L176"
    /\ local[t].i < MaxChunks
    /\ obj' = [obj EXCEPT ![local[t].item].progress = ChunkProgress(local[t].i, MaxChunks),
                          ![local[t].item].message = ChunkMessage(local[t].i, MaxChunks)]
    /\ local' = [local EXCEPT ![t].i = @ + 1]
    /\ UNCHANGED <<items, queue, is_running, is_paused, processor_func,
                   on_item_status_changed, on_batch_completed>>
    /\ UNCHANGED <<processing_thread, pc, historyVars, cpc, ret>>
    /\ UNCHANGED <<chunkerVars, remembered, processorVars, cpc2>>
    /\ UNCHANGED converterVars

\* line 176: the call of processor_func returns True or False
w_call_returns(t) ==
    /\ pc[t] = "L176"
    /\ \E r \in Returns :
         /\ local' = [local EXCEPT ![t].success = r]
         /\ outcome' = [outcome EXCEPT ![local[t].item] = r]
    /\ Goto(t, "L179")
    /\ UNCHANGED <<runnerVars, processing_thread, cpc, ret>>
    /\ UNCHANGED <<notified, completed_calls, pause_item>>
    /\ UNCHANGED <<chunkerVars, remembered, processorVars, cpc2>>
    /\ UNCHANGED converterVars

\* line 176 to line 183: the call of processor_func raises
w_call_raises(t) ==
    /\ pc[t] = "L176"
    /\ \E d \in Details :
         /\ local' = [local EXCEPT ![t].e = d]
         /\ outcome' = [outcome EXCEPT ![local[t].item] = "raise"]
    /\ Goto(t, "L185")
    /\ UNCHANGED <<runnerVars, processing_thread, cpc, ret>>
    /\ UNCHANGED <<notified, completed_calls, pause_item>>
    /\ UNCHANGED <<chunkerVars, remembered, processorVars, cpc2>>
    /\ UNCHANGED converterVars

\* A worker that also drops the result when the runner is paused
KeepResult_UnlessPaused == is_running /\ ~is_paused

\* line 179: the result is recorded only if the run was not cancelled
KeepResult == is_running

\* line 179: if self.is_running
w_if_running(t) ==
    /\ pc[t] = "L179"
    /\ Goto(t, IF KeepResult THEN "L180" ELSE "L192")
    /\ UNCHANGED <<runnerVars, processing_thread, local, historyVars, cpc, ret>>
    /\ UNCHANGED <<chunkerVars, remembered, processorVars, cpc2>>
    /\ UNCHANGED converterVars

\* A worker that ignores the processor's result
ResultStatus_AlwaysCompleted(success) == COMPLETED

\* line 180: COMPLETED if success else FAILED
ResultStatus(success) == IF success = "true" THEN COMPLETED ELSE FAILED

\* line 180: item.status = ...
w_set_result(t) ==
    /\ pc[t] = "L180"
    /\ obj' = SetStatus(obj, local[t].item, ResultStatus(local[t].success))
    /\ Goto(t, "L181")
    /\ UNCHANGED <<items, queue, is_running, is_paused, processor_func,
                   on_item_status_changed, on_batch_completed>>
    /\ UNCHANGED <<processing_thread, local, historyVars, cpc, ret>>
    /\ UNCHANGED <<chunkerVars, remembered, processorVars, cpc2>>
    /\ UNCHANGED converterVars

\* An except block that loses the exception's text
Failure_NoDetail(it, e) == [it EXCEPT !.status = FAILED, !.error = e,
                                      !.message = <<"Error: ">>]

\* lines 185-187: what the except block writes to the item
Failure(it, e) == [it EXCEPT !.status = FAILED, !.error = e,
                             !.message = ErrorMessage(e)]

\* lines 185-187: the except block
w_except(t) ==
    /\ pc[t] = "L185"
    /\ obj' = [obj EXCEPT ![local[t].item] = Failure(@, local[t].e)]
    /\ Goto(t, "L188")
    /\ UNCHANGED <<items, queue, is_running, is_paused, processor_func,
                   on_item_status_changed, on_batch_completed>>
    /\ UNCHANGED <<processing_thread, local, historyVars, cpc, ret>>
    /\ UNCHANGED <<chunkerVars, remembered, processorVars, cpc2>>
    /\ UNCHANGED converterVars

\* lines 192-195: queue.task_done(); time.sleep(0.1); back to the loop test
w_task_done(t) ==
    /\ pc[t] = "L192"
    /\ local' = [local EXCEPT ![t] = NoLocal]
    /\ Goto(t, "L159")
    /\ UNCHANGED <<runnerVars, processing_thread, historyVars, cpc, ret>>
    /\ UNCHANGED <<chunkerVars, remembered, processorVars, cpc2>>
    /\ UNCHANGED converterVars

\* line 198: self.is_running = False
w_stop_running(t) ==
    /\ pc[t] = "L198"
    /\ is_running' = FALSE
    /\ Goto(t, "L201")
    /\ UNCHANGED <<obj, items, queue, is_paused, processor_func,
                   on_item_status_changed, on_batch_completed>>
    /\ UNCHANGED <<processing_thread, local, historyVars, cpc, ret>>
    /\ UNCHANGED <<chunkerVars, remembered, processorVars, cpc2>>
    /\ UNCHANGED converterVars

\* A worker that reports the end of the batch only if it was not cancelled
w_batch_completed_UnlessCancelled(t) ==
    /\ pc[t] = "L201"
    /\ completed_calls' =
         IF \E i \in Ids : StatusOf(i) = CANCELLED
         THEN completed_calls
         ELSE IF on_batch_completed
              THEN [completed_calls EXCEPT ![t].called = @ + 1]
              ELSE [completed_calls EXCEPT ![t].skipped = @ + 1]
    /\ pc' = [pc EXCEPT ![t] = "done"]
    /\ UNCHANGED <<runnerVars, processing_thread, local, cpc, ret>>
    /\ UNCHANGED <<outcome, notified, pause_item>>
    /\ UNCHANGED <<chunkerVars, remembered, processorVars, cpc2>>
    /\ UNCHANGED converterVars

\* lines 201-202: on_batch_completed(), if there is one; the thread ends
w_batch_completed(t) ==
    /\ pc[t] = "L201"
    /\ completed_calls' =
         IF on_batch_completed
         THEN [completed_calls EXCEPT ![t].called = @ + 1]
         ELSE [completed_calls EXCEPT ![t].skipped = @ + 1]
    /\ Goto(t, "done")
    /\ UNCHANGED <<runnerVars, processing_thread, local, cpc, ret>>
    /\ UNCHANGED <<outcome, notified, pause_item>>
    /\ UNCHANGED <<chunkerVars, remembered, processorVars, cpc2>>
    /\ UNCHANGED converterVars

\* The steps of worker thread t outside the call of processor_func and the
\* except block
LoopStep(t) ==
    \/ w_while_running(t)
    \/ w_while_empty(t)
    \/ w_if_paused(t)
    \/ w_get(t)
    \/ w_if_pending(t)
    \/ w_set_processing(t)
    \/ w_notify(t, "L171", "L176")
    \/ w_if_running(t)
    \/ w_set_result(t)
    \/ w_notify(t, "L181", "L192")
    \/ w_task_done(t)
    \/ w_stop_running(t)
    \/ w_batch_completed(t)

\* lines 183-189: the except block
ExceptStep(t) ==
    \/ w_except(t)
    \/ w_notify(t, "L188", "L192")

\* The steps of worker thread t, whatever processor_func is
WorkerStep(t) ==
    \/ LoopStep(t)
    \/ w_call_returns(t)
    \/ w_call_raises(t)
    \/ ExceptStep(t)

Worker == \E t \in Threads : WorkerStep(t)

\* The observer on_item_status_changed fails at one of its three call sites
ObserverRaises ==
    \E t \in Threads :
        \/ w_notify_raises(t, "L171")
        \/ w_notify_caught(t)
        \/ w_notify_raises(t, "L188")

\* The writes of a processor that reports its progress on the item
Processor == \E t \in Threads : process_item_chunk(t)

\* ------------------------------- TextProcessor (utils/text_processor.py)
\* A text is a sequence of characters; position p of a Python string is
\* element p + 1 of the sequence.  The texts explored are made of the space,
\* the newline and two of the sentence-ending characters; a "." or "!" that
\* no space follows is an ordinary character of a word.
NL == "\n"
Chars == {" ", NL, ".", "!"}
Texts == UNION {[1..n -> Chars] : n \in 0..MaxLen}
ChunkSizes == 1..MaxLen

\* The characters str.strip() removes
Whitespace == {" ", NL, "\t"}

\* text[a:b]
Slice(t, a, b) == SubSeq(t, a + 1, b)

\* t.rfind(sub, start, end), scanning down from position i
RECURSIVE RFindFrom(_, _, _, _)
RFindFrom(t, sub, start, i) ==
    IF i < start THEN -1
    ELSE IF Slice(t, i, i + Len(sub)) = sub THEN i
    ELSE RFindFrom(t, sub, start, i - 1)

\* t.rfind(sub, start, end)
rfind(t, sub, start, end) == RFindFrom(t, sub, start, end - Len(sub))

\* s.lstrip()
RECURSIVE lstrip(_)
lstrip(s) == IF s # <<>> /\ Head(s) \in Whitespace THEN lstrip(Tail(s)) ELSE s

\* s.rstrip()
RECURSIVE rstrip(_)
rstrip(s) ==
    IF s # <<>> /\ s[Len(s)] \in Whitespace THEN rstrip(SubSeq(s, 1, Len(s) - 1))
    ELSE s

\* A strip() that leaves the trailing whitespace
strip_LeadingOnly(s) == lstrip(s)

\* s.strip()
strip(s) == rstrip(lstrip(s))

\* max(a, b, c)
Max3(a, b, c) ==
    IF a >= b /\ a >= c THEN a ELSE IF b >= c THEN b ELSE c

\* A chunker whose "past the midpoint" tests look at the first third
Half_Third(n) == n \div 3

\* self.max_chunk_size // 2
Half(n) == n \div 2

\* self.max_chunk_size // 3
Third(n) == n \div 3

\* A chunker that cuts every window at its end
BreakPoint_AtEnd(t, size, pos, end) == end
\* split_into_chunks, lines 63-86: the break point for the window that
\* starts at pos and would end at end < len(text)
BreakPoint(t, size, pos, end) ==
    LET paragraph_break == rfind(t, <<NL, NL>>, pos, end)
        line_break == rfind(t, <<NL>>, pos, end)
        sentence_end == Max3(rfind(t, <<".", " ">>, pos, end),
                             rfind(t, <<"!", " ">>, pos, end),
                             rfind(t, <<"?", " ">>, pos, end))
        space == rfind(t, <<" ">>, pos, end)
    IN  IF paragraph_break # -1 /\ paragraph_break > pos + Half(size)
        THEN paragraph_break + 2
        ELSE IF line_break # -1 /\ line_break > pos + Half(size)
        THEN line_break + 1
        ELSE IF sentence_end # -1 /\ sentence_end > pos + Half(size)
        THEN sentence_end + 2
        ELSE IF space # -1 /\ space > pos + Third(size)
        THEN space + 1
        ELSE end

\* min(a, b)
Min(a, b) == IF a <= b THEN a ELSE b

\* A chunker whose window is one character short
ChunkEnd_ShortWindow(t, size, pos) ==
    LET end == Min(pos + size - 1, Len(t))
    IN  IF end < Len(t) THEN BreakPoint(t, size, pos, end) ELSE end
\* split_into_chunks, lines 60-86: chunk_end of the iteration at pos
ChunkEnd(t, size, pos) ==
    LET end == Min(pos + size, Len(t))
    IN  IF end < Len(t) THEN BreakPoint(t, size, pos, end) ELSE end

\* A chunker that loses the last character of every slice
Chunk_DropLast(t, pos, end) == strip(Slice(t, pos, end - 1))

\* line 89: chunk = text[current_pos:chunk_end].strip()
Chunk(t, pos, end) == strip(Slice(t, pos, end))

\* split_into_chunks, lines 58-94: one iteration of the while loop
split_iterate ==
    /\ tpc = "L58"
    /\ current_pos < Len(text)
    /\ LET chunk_end == ChunkEnd(text, max_chunk_size, current_pos)
           chunk == Chunk(text, current_pos, chunk_end)
       IN  /\ chunks' = IF chunk # <<>> THEN Append(chunks, chunk) ELSE chunks
           /\ slices' = Append(slices, <<current_pos, chunk_end>>)
           /\ current_pos' = chunk_end
    /\ UNCHANGED <<text, max_chunk_size, tpc>>
    /\ UNCHANGED <<runnerVars, workerVars, historyVars, cpc, ret>>
    /\ UNCHANGED <<remembered, processorVars, cpc2>>
    /\ UNCHANGED converterVars

\* split_into_chunks, lines 58 and 96: the loop test fails, chunks is returned
split_return ==
    /\ tpc = "L58"
    /\ ~(current_pos < Len(text))
    /\ tpc' = "L96"
    /\ UNCHANGED <<text, max_chunk_size, current_pos, chunks, slices>>
    /\ UNCHANGED <<runnerVars, workerVars, historyVars, cpc, ret>>
    /\ UNCHANGED <<remembered, processorVars, cpc2>>
    /\ UNCHANGED converterVars

\* The texts and sizes of the calls followed to their return
LiveTexts == UNION {[1..n -> Chars] : n \in 0..MaxLive}
LiveSizes == 1..MaxLive

\* The texts and sizes of the repeated calls
CallTexts == UNION {[1..n -> Chars] : n \in 0..MaxText}
CallSizes == 1..MaxText

\* What is remembered when the next call begins: the call that has just
\* returned, or the call remembered before, with a note if the call that
\* has just returned had another text
Remember ==
    IF tpc # "L96" THEN {remembered}
    ELSE {[made |-> TRUE, text |-> text, chunks |-> chunks, others |-> FALSE],
          IF remembered.made /\ remembered.text # text
          THEN [remembered EXCEPT !.others = TRUE]
          ELSE remembered}

\* A chunker that keeps its list of chunks from one call to the next
split_call_KeepChunks ==
    /\ tpc \in {"idle", "L96"}
    /\ \E t \in CallTexts : text' = t
    /\ current_pos' = 0
    /\ slices' = <<>>
    /\ tpc' = "L58"
    /\ remembered' \in Remember
    /\ UNCHANGED <<max_chunk_size, chunks>>
    /\ UNCHANGED <<runnerVars, workerVars, historyVars, cpc, ret>>
    /\ UNCHANGED <<processorVars, cpc2>>
    /\ UNCHANGED converterVars

\* split_into_chunks(text), lines 52-56: a call begins, after the call
\* before it has returned; chunks = [], current_pos = 0
split_call ==
    /\ tpc \in {"idle", "L96"}
    /\ \E t \in CallTexts : text' = t
    /\ current_pos' = 0
    /\ chunks' = <<>>
    /\ slices' = <<>>
    /\ tpc' = "L58"
    /\ remembered' \in Remember
    /\ UNCHANGED max_chunk_size
    /\ UNCHANGED <<runnerVars, workerVars, historyVars, cpc, ret>>
    /\ UNCHANGED <<processorVars, cpc2>>
    /\ UNCHANGED converterVars

\* "Hello world. This is a test sentence that is long enough.", the text
\* of the chunking example, and the max_chunk_size of that example
Sentence ==
    <<"H", "e", "l", "l", "o", " ", "w", "o", "r", "l", "d", ".",
      " ", "T", "h", "i", "s", " ", "i", "s", " ", "a", " ", "t",
      "e", "s", "t", " ", "s", "e", "n", "t", "e", "n", "c", "e",
      " ", "t", "h", "a", "t", " ", "i", "s", " ", "l", "o", "n",
      "g", " ", "e", "n", "o", "u", "g", "h", ".">>
SentenceSize == 20

\* The texts and the sizes of the calls made with that sentence: the
\* sentence cut off after any number of characters, any size up to the
\* size of the example
SentenceTexts == {SubSeq(Sentence, 1, n) : n \in 0..Len(Sentence)}
SentenceSizes == 1..SentenceSize

\* ------------------- TextProcessor.preprocess_text and process_file
\* The number of characters c that s starts with
RECURSIVE RunLength(_, _)
RunLength(s, c) ==
    IF s # <<>> /\ Head(s) = c THEN 1 + RunLength(Tail(s), c) ELSE 0

\* c * n
Repeat(c, n) == [k \in 1..n |-> c]

\* re.sub(r'c{least,}', c * to, s): every maximal run of at least `least`
\* characters c becomes `to` of them
RECURSIVE SubRuns(_, _, _, _)
SubRuns(s, c, least, to) ==
    IF s = <<>> THEN <<>>
    ELSE LET r == RunLength(s, c)
         IN  IF r = 0
             THEN <<Head(s)>> \o SubRuns(Tail(s), c, least, to)
             ELSE Repeat(c, IF r >= least THEN to ELSE r)
                    \o SubRuns(SubSeq(s, r + 1, Len(s)), c, least, to)

\* s.replace(a, "") for a single character
Replace_Dropping(s, a, b) == SelectSeq(s, LAMBDA c : c # a)
\* s.replace(a, b) for single characters
Replace(s, a, b) == [k \in 1..Len(s) |-> IF s[k] = a THEN b ELSE s[k]]

\* preprocess_text with the spaces merged before the tabs are replaced
preprocess_text_SpacesFirst(t) ==
    Replace(SubRuns(SubRuns(t, NL, 3, 2), " ", 2, 1), "\t", " ")
\* TextProcessor.preprocess_text, lines 40-46
preprocess_text(t) ==
    SubRuns(Replace(SubRuns(t, NL, 3, 2), "\t", " "), " ", 2, 1)

\* split_into_chunks, lines 58-96: the loop from current_pos = pos on, with
\* the chunks acc collected so far
RECURSIVE SplitFrom(_, _, _, _)
SplitFrom(t, size, pos, acc) ==
    IF pos < Len(t)
    THEN LET chunk_end == ChunkEnd(t, size, pos)
             chunk == Chunk(t, pos, chunk_end)
         IN  SplitFrom(t, size, chunk_end,
                       IF chunk # <<>> THEN Append(acc, chunk) ELSE acc)
    ELSE acc

\* TextProcessor.split_into_chunks as one call
split_into_chunks(t, size) == SplitFrom(t, size, 0, <<>>)

\* TextProcessor.process_file, lines 101-109, for a file read_text_file reads
process_file(content) == split_into_chunks(preprocess_text(content), max_chunk_size)

\* The characters of the texts given to preprocess_text: the three it
\* rewrites and two it leaves alone
PreChars == {" ", "\t", NL, "a", "b"}
PreTexts == UNION {[1..n -> PreChars] : n \in 0..MaxLen}

\* The text the next call of preprocess_text is given: the first call the
\* text of the caller, every later call the text the call before it returned
PreArgument(n) == IF n = 1 THEN pre.given ELSE pre.returned[n - 1]

\* text = preprocess_text(text), lines 37-50
preprocess ==
    /\ Len(pre.returned) < MaxPasses
    /\ pre' = [pre EXCEPT !.returned =
                 Append(@, preprocess_text(PreArgument(Len(pre.returned) + 1)))]
    /\ UNCHANGED <<runnerVars, workerVars, historyVars, cpc, ret>>
    /\ UNCHANGED <<chunkerVars, remembered, processorVars, cpc2, ser>>

\* The items given to to_dict: any two file names, any status, a progress
\* and a message as a processor leaves them, with or without an error
FileNames == {"a.txt", "b.txt"}
AudioNames == {"a.mp3", "b.mp3"}
ItemProgress == {ChunkProgress(i, MaxChunks) : i \in 0..MaxChunks}
ItemMessages == {<<>>, ChunkMessage(0, MaxChunks)} \cup {ErrorMessage(d) : d \in Details}
AnyItems ==
    [input_file : FileNames, output_file : AudioNames, status : Statuses,
     progress : ItemProgress, message : ItemMessages, error : {None} \cup Details]

\* data = item.to_dict()
item_to_dict ==
    /\ ser.item # <<>>
    /\ ser.data = <<>>
    /\ ser' = [ser EXCEPT !.data = <<to_dict(ser.item[1])>>]
    /\ UNCHANGED <<runnerVars, workerVars, historyVars, cpc, ret>>
    /\ UNCHANGED <<chunkerVars, remembered, processorVars, cpc2, pre>>

\* back = BatchItem.from_dict(data); line 50 raises ValueError if the
\* status of data is the value of no member
dict_to_item ==
    /\ ser.data # <<>>
    /\ ser.back = <<>>
    /\ ~ser.raised
    /\ ser' = IF StatusesOfValue(ser.data[1].status) = {}
              THEN [ser EXCEPT !.raised = TRUE]
              ELSE [ser EXCEPT !.back = <<from_dict(ser.data[1])>>]
    /\ UNCHANGED <<runnerVars, workerVars, historyVars, cpc, ret>>
    /\ UNCHANGED <<chunkerVars, remembered, processorVars, cpc2, pre>>

\* again = back.to_dict()
item_to_dict_again ==
    /\ ser.back # <<>>
    /\ ser.again = <<>>
    /\ ser' = [ser EXCEPT !.again = <<to_dict(ser.back[1])>>]
    /\ UNCHANGED <<runnerVars, workerVars, historyVars, cpc, ret>>
    /\ UNCHANGED <<chunkerVars, remembered, processorVars, cpc2, pre>>

\* -------------------- the input files and the speech service
\* A word of an input file, and the chunk size that holds one word and the
\* space after it
Word == <<"a", "b">>
WordSize == Len(Word) + 1

\* n words, a space and a tab between two of them
RECURSIVE Words(_)
Words(n) ==
    IF n = 0 THEN <<>>
    ELSE IF n = 1 THEN Word
    ELSE Words(n - 1) \o <<" ", "\t">> \o Word

\* What open(item.input_file) finds: a file that cannot be read or does not
\* exist, an empty file, a file of white space, or a file of up to
\* MaxChunks words
Sources ==
    {[readable |-> FALSE, content |-> <<>>]}
      \cup {[readable |-> TRUE, content |-> c] :
              c \in {<<" ", "\t", NL>>} \cup {Words(n) : n \in 0..MaxChunks}}

\* read_text_file, lines 32-35: str(e) of the exception it raises
ReadError == "Error reading file"

\* ElevenLabsClient.text_to_speech, lines 117-124: the detail it returns with
\* False
ApiErrors == {"API Error: 401"}

\* text_to_speech returns (True, output_path) or (False, detail)
ApiResults ==
    {[ok |-> TRUE, detail |-> None]}
      \cup {[ok |-> FALSE, detail |-> d] : d \in ApiErrors}

\* _start_batch, lines 412-417: the options of the run
Options == [voice_id |-> "voice_id", model_id |-> "model_id",
            stability |-> "stability", similarity_boost |-> "similarity_boost"]

\* The files of a batch have different names; item i is made from the i-th.
\* _add_files: output_file is <output_dir>/<stem of the input file>.mp3
OutputFile(i) == [stem |-> i, part |-> 0]
\* lines 552-555: <dirname(output_file)>/<stem of the input file>_part<k>.mp3
TempFile(i, k) == [stem |-> i, part |-> k]

\* The audio the service makes of a text
Audio(t) == [speech |-> t]

\* open(path, "wb").write(audio)
Write(fs, path, audio) ==
    {f \in fs : f.path # path} \cup {[path |-> path, audio |-> audio]}

\* A copy that removes its source, as a rename does
Copy_Moving(fs, src, dst) ==
    {f \in fs : f.path \notin {src, dst}}
      \cup {[path |-> dst, audio |-> f.audio] : f \in {g \in fs : g.path = src}}

\* shutil.copy(src, dst)
Copy(fs, src, dst) ==
    {f \in fs : f.path # dst}
      \cup {[path |-> dst, audio |-> f.audio] : f \in {g \in fs : g.path = src}}

\* -------------------- BatchTab._process_batch_item (ui/batch_tab.py)
\* The messages the processor writes to its item
Reading == <<"Dang doc tep...">>
EmptyOrUnreadable == <<"Tep van ban trong hoac khong the doc">>
Converting == <<"Dang chuyen doi...">>
\* A message that does not say what went wrong
ErrorText_NoDetail(d) == <<"Loi: ", "unknown">>
\* lines 534 and 583
ErrorText(d) == <<"Loi: ", d>>
Done == <<"Hoan thanh">>
Parts(n) == <<"Dang xu ly ", n, " phan...">>
\* A message that counts the chunks from zero
PartError_FromZero(i, d) == <<"Loi o phan ", i, d>>
\* line 568
PartError(i, d) == <<"Loi o phan ", i + 1, d>>
DoneParts(n) == <<"Hoan thanh (", n, " phan)">>

At(t, l) == pc[t] = "L176" /\ proc[t].at = l

SetMessage(t, m) == obj' = [obj EXCEPT ![local[t].item].message = m]

\* return r: the call at line 176 of _process_batch yields r
ReturnToWorker(t, r) ==
    /\ local' = [local EXCEPT ![t].success = r]
    /\ outcome' = [outcome EXCEPT ![local[t].item] = r]
    /\ proc' = [proc EXCEPT ![t] = NoProc]
    /\ Goto(t, "L179")

\* api_client.text_to_speech(text, voice_id, model_id, stability,
\* similarity_boost, output_path): the service answers, the audio is written
\* to output_path if it answers 200, and the call is recorded
text_to_speech(t, chunk, path, r) ==
    /\ calls' = Append(calls, [item |-> local[t].item, text |-> chunk,
                               voice_id |-> Options.voice_id,
                               model_id |-> Options.model_id,
                               stability |-> Options.stability,
                               similarity_boost |-> Options.similarity_boost,
                               output_path |-> path, ok |-> r.ok,
                               detail |-> r.detail])
    /\ files' = IF r.ok THEN Write(files, path, Audio(chunk)) ELSE files

\* lines 504-510: the options are read, item.message = "Dang doc tep..."
p_begin(t) ==
    /\ At(t, "L504")
    /\ SetMessage(t, Reading)
    /\ proc' = [proc EXCEPT ![t].at = "L513"]
    /\ UNCHANGED <<items, queue, is_running, is_paused, processor_func,
                   on_item_status_changed, on_batch_completed>>
    /\ UNCHANGED <<workerVars, historyVars, cpc, ret, calls, files>>
    /\ UNCHANGED <<chunkerVars, remembered, cpc2>>
    /\ UNCHANGED converterVars

\* A processor without its try/except: the exception of read_text_file
\* leaves _process_batch_item and reaches line 183 of the worker
p_process_file_Raising(t) ==
    /\ At(t, "L513")
    /\ \E src \in Sources :
         IF src.readable
         THEN /\ proc' = [proc EXCEPT ![t].text_chunks = process_file(src.content),
                                      ![t].at = "L515"]
              /\ UNCHANGED <<pc, local, outcome>>
         ELSE /\ proc' = [proc EXCEPT ![t] = NoProc]
              /\ local' = [local EXCEPT ![t].e = ReadError]
              /\ outcome' = [outcome EXCEPT ![local[t].item] = "raise"]
              /\ Goto(t, "L185")
    /\ UNCHANGED <<runnerVars, processing_thread, cpc, ret, calls, files>>
    /\ UNCHANGED <<notified, completed_calls, pause_item>>
    /\ UNCHANGED <<chunkerVars, remembered, cpc2>>
    /\ UNCHANGED converterVars

\* line 513: text_chunks = self.text_processor.process_file(item.input_file),
\* which raises if the file cannot be read
p_process_file(t) ==
    /\ At(t, "L513")
    /\ \E src \in Sources :
         proc' = IF src.readable
                 THEN [proc EXCEPT ![t].text_chunks = process_file(src.content),
                                   ![t].at = "L515"]
                 ELSE [proc EXCEPT ![t].result = ReadError, ![t].at = "L582"]
    /\ UNCHANGED <<runnerVars, workerVars, historyVars, cpc, ret, calls, files>>
    /\ UNCHANGED <<chunkerVars, remembered, cpc2>>
    /\ UNCHANGED converterVars

\* lines 515-517: if not text_chunks: the item gets the message of an empty
\* or unreadable file and False is returned
p_no_chunks(t) ==
    /\ At(t, "L515")
    /\ IF proc[t].text_chunks = <<>>
       THEN /\ SetMessage(t, EmptyOrUnreadable)
            /\ ReturnToWorker(t, "false")
       ELSE /\ proc' = [proc EXCEPT ![t].at = "L520"]
            /\ UNCHANGED <<obj, pc, local, outcome>>
    /\ UNCHANGED <<items, queue, is_running, is_paused, processor_func,
                   on_item_status_changed, on_batch_completed>>
    /\ UNCHANGED <<processing_thread, notified, completed_calls, pause_item>>
    /\ UNCHANGED <<cpc, ret, calls, files>>
    /\ UNCHANGED <<chunkerVars, remembered, cpc2>>
    /\ UNCHANGED converterVars

\* lines 520-531: one chunk is converted straight to item.output_file
p_single(t) ==
    /\ At(t, "L520")
    /\ Len(proc[t].text_chunks) = 1
    /\ SetMessage(t, Converting)
    /\ \E r \in ApiResults :
         /\ text_to_speech(t, proc[t].text_chunks[1], OutputFile(local[t].item), r)
         /\ proc' = [proc EXCEPT ![t].success = r.ok,
                                 ![t].result = IF r.ok THEN None ELSE r.detail,
                                 ![t].at = "L533"]
    /\ UNCHANGED <<items, queue, is_running, is_paused, processor_func,
                   on_item_status_changed, on_batch_completed>>
    /\ UNCHANGED <<workerVars, historyVars, cpc, ret>>
    /\ UNCHANGED <<chunkerVars, remembered, cpc2>>
    /\ UNCHANGED converterVars

\* lines 533-538: the message and the result of the single conversion
p_single_done(t) ==
    /\ At(t, "L533")
    /\ IF ~proc[t].success
       THEN /\ SetMessage(t, ErrorText(proc[t].result))
            /\ ReturnToWorker(t, "false")
       ELSE /\ SetMessage(t, Done)
            /\ ReturnToWorker(t, "true")
    /\ UNCHANGED <<items, queue, is_running, is_paused, processor_func,
                   on_item_status_changed, on_batch_completed>>
    /\ UNCHANGED <<processing_thread, notified, completed_calls, pause_item>>
    /\ UNCHANGED <<cpc, ret, calls, files>>
    /\ UNCHANGED <<chunkerVars, remembered, cpc2>>
    /\ UNCHANGED converterVars

\* lines 520 and 541-544: several chunks; temp_files = []
p_parts(t) ==
    /\ At(t, "L520")
    /\ Len(proc[t].text_chunks) # 1
    /\ SetMessage(t, Parts(Len(proc[t].text_chunks)))
    /\ proc' = [proc EXCEPT ![t].temp_files = <<>>, ![t].i = 0, ![t].at = "L546"]
    /\ UNCHANGED <<items, queue, is_running, is_paused, processor_func,
                   on_item_status_changed, on_batch_completed>>
    /\ UNCHANGED <<workerVars, historyVars, cpc, ret, calls, files>>
    /\ UNCHANGED <<chunkerVars, remembered, cpc2>>
    /\ UNCHANGED converterVars

\* lines 546-565: the next chunk: the item's progress and message are
\* written, then the chunk is converted to its own temp_file
p_chunk(t) ==
    /\ At(t, "L546")
    /\ proc[t].i < Len(proc[t].text_chunks)
    /\ LET i == proc[t].i
           n == Len(proc[t].text_chunks)
       IN  /\ obj' = [obj EXCEPT ![local[t].item].progress = ChunkProgress(i, n),
                                 ![local[t].item].message = ChunkMessage(i, n)]
           /\ \E r \in ApiResults :
                /\ text_to_speech(t, proc[t].text_chunks[i + 1],
                                  TempFile(local[t].item, i + 1), r)
                /\ proc' = [proc EXCEPT ![t].success = r.ok,
                                        ![t].result = IF r.ok THEN None ELSE r.detail,
                                        ![t].at = "L567"]
    /\ UNCHANGED <<items, queue, is_running, is_paused, processor_func,
                   on_item_status_changed, on_batch_completed>>
    /\ UNCHANGED <<workerVars, historyVars, cpc, ret>>
    /\ UNCHANGED <<chunkerVars, remembered, cpc2>>
    /\ UNCHANGED converterVars

\* A processor that converts a failed chunk again
p_chunk_done_Retry(t) ==
    /\ At(t, "L567")
    /\ proc' = IF ~proc[t].success
               THEN [proc EXCEPT ![t].at = "L546"]
               ELSE [proc EXCEPT
                       ![t].temp_files = Append(@, TempFile(local[t].item, proc[t].i + 1)),
                       ![t].i = @ + 1,
                       ![t].at = "L546"]
    /\ UNCHANGED <<runnerVars, workerVars, historyVars, cpc, ret, calls, files>>
    /\ UNCHANGED <<chunkerVars, remembered, cpc2>>
    /\ UNCHANGED converterVars

\* lines 567-571: a failed chunk ends the item; the temp_file of a converted
\* chunk is kept and the loop goes on
p_chunk_done(t) ==
    /\ At(t, "L567")
    /\ IF ~proc[t].success
       THEN /\ SetMessage(t, PartError(proc[t].i, proc[t].result))
            /\ ReturnToWorker(t, "false")
       ELSE /\ proc' = [proc EXCEPT
                          ![t].temp_files = Append(@, TempFile(local[t].item, proc[t].i + 1)),
                          ![t].i = @ + 1,
                          ![t].at = "L546"]
            /\ UNCHANGED <<obj, pc, local, outcome>>
    /\ UNCHANGED <<items, queue, is_running, is_paused, processor_func,
                   on_item_status_changed, on_batch_completed>>
    /\ UNCHANGED <<processing_thread, notified, completed_calls, pause_item>>
    /\ UNCHANGED <<cpc, ret, calls, files>>
    /\ UNCHANGED <<chunkerVars, remembered, cpc2>>
    /\ UNCHANGED converterVars

\* lines 546 and 575-580: after the last chunk the first temp_file is copied
\* to item.output_file and True is returned
p_copy(t) ==
    /\ At(t, "L546")
    /\ ~(proc[t].i < Len(proc[t].text_chunks))
    /\ files' = IF proc[t].temp_files # <<>>
                THEN Copy(files, proc[t].temp_files[1], OutputFile(local[t].item))
                ELSE files
    /\ SetMessage(t, DoneParts(Len(proc[t].temp_files)))
    /\ ReturnToWorker(t, "true")
    /\ UNCHANGED <<items, queue, is_running, is_paused, processor_func,
                   on_item_status_changed, on_batch_completed>>
    /\ UNCHANGED <<processing_thread, notified, completed_calls, pause_item>>
    /\ UNCHANGED <<cpc, ret, calls>>
    /\ UNCHANGED <<chunkerVars, remembered, cpc2>>
    /\ UNCHANGED converterVars

\* lines 582-584: except Exception as e: item.message = f"Loi: {str(e)}"
p_except(t) ==
    /\ At(t, "L582")
    /\ SetMessage(t, ErrorText(proc[t].result))
    /\ ReturnToWorker(t, "false")
    /\ UNCHANGED <<items, queue, is_running, is_paused, processor_func,
                   on_item_status_changed, on_batch_completed>>
    /\ UNCHANGED <<processing_thread, notified, completed_calls, pause_item>>
    /\ UNCHANGED <<cpc, ret, calls, files>>
    /\ UNCHANGED <<chunkerVars, remembered, cpc2>>
    /\ UNCHANGED converterVars

\* The steps of _process_batch_item called by worker thread t
process_batch_item(t) ==
    \/ p_begin(t)
    \/ p_process_file(t)
    \/ p_no_chunks(t)
    \/ p_single(t)
    \/ p_single_done(t)
    \/ p_parts(t)
    \/ p_chunk(t)
    \/ p_chunk_done(t)
    \/ p_copy(t)
    \/ p_except(t)

\* The worker loop around the processor of the batch tab
Loop == \E t \in Threads : LoopStep(t)
ProcessItem == \E t \in Threads : process_batch_item(t)

\* The caller's steps, by method
Configure == set_processor \/ set_callbacks
add_item == (add_item_append /\ Len(obj) < MaxItems) \/ add_item_put
clear_all == clear_all_queue \/ clear_all_items
start == start_refused \/ start_flags \/ start_thread
cancel == cancel_refused \/ cancel_flags \/ cancel_mark \/ cancel_clear
add_item_concurrent ==
    \/ add_item_append_concurrent /\ Len(obj) < MaxItems
    \/ add_item_put_concurrent

\* One step of the caller or of a worker thread
Next ==
    \/ Configure
    \/ add_item
    \/ clear_completed
    \/ clear_all
    \/ start
    \/ pause
    \/ resume
    \/ cancel
    \/ Worker

\* Every method of BatchProcessor called at any time by the caller, against
\* up to MaxStarts worker threads.
Spec == Init /\ [][Next]_vars

\* Run control with the caller's calls recorded: items are added and the
\* runner is started, paused, resumed and cancelled at any time, against one
\* worker thread; the item list is never cleared.
NextCalls ==
    \/ Configure
    \/ add_item
    \/ start_refused
    \/ start_flags /\ processing_thread = 0
    \/ start_thread
    \/ pause
    \/ resume
    \/ cancel
    \/ Worker

SpecCalls == InitObserved /\ [][NextCalls]_vars

\* One batch: the items are added before the first start(), then the runner
\* is started, paused and resumed, but neither cancelled nor cleared.
NextRun ==
    \/ Configure
    \/ add_item_append /\ Len(obj) < MaxBatch /\ processing_thread = 0
    \/ add_item_put
    \/ start
    \/ pause
    \/ resume
    \/ Worker

SpecRun == InitObserved /\ [][NextRun]_vars

\* The scheduler runs every started worker thread again and again: a worker
\* step that stays possible is eventually taken.  The runner is never paused,
\* every processor call returns or raises (w_call_returns, w_call_raises are
\* worker steps), and the caller may stop calling at any time.
NextLive ==
    \/ Configure
    \/ add_item
    \/ clear_all
    \/ start_refused
    \/ start_flags /\ processing_thread = 0
    \/ start_thread
    \/ cancel
    \/ Worker

LiveSpec ==
    /\ Init
    /\ [][NextLive]_vars
    /\ \A t \in Threads : WF_vars(WorkerStep(t))

\* Batches started and cancelled at any time against up to MaxStarts worker
\* threads; never paused, and no item is discarded by clear_all.
NextRestart ==
    \/ Configure
    \/ add_item
    \/ start
    \/ cancel
    \/ Worker

SpecRestart == Init /\ [][NextRestart]_vars

\* Batches of a processor that writes its progress to the item, started and
\* cancelled at any time against one worker thread.
NextItem ==
    \/ Configure
    \/ add_item
    \/ start_refused
    \/ start_flags /\ processing_thread = 0
    \/ start_thread
    \/ cancel
    \/ Worker
    \/ Processor

SpecItem == Init /\ [][NextItem]_vars

\* The item list filled, cleared and run: every method of BatchProcessor that
\* changes the item list or an item's status, against one worker thread.
NextList ==
    \/ Configure
    \/ add_item
    \/ clear_completed
    \/ clear_all
    \/ start_refused
    \/ start_flags /\ processing_thread = 0
    \/ start_thread
    \/ pause
    \/ resume
    \/ cancel
    \/ Worker

SpecList == Init /\ [][NextList]_vars

\* TextProcessor(max_chunk_size).split_into_chunks(text), lines 54-56: a call
\* with any text of up to MaxLen characters and any size of 1..MaxLen
InitSplit ==
    /\ Constructed
    /\ NotProcessing
    /\ NotConverting
    /\ remembered = NoCall
    /\ ret = Unobserved
    /\ text \in Texts
    /\ max_chunk_size \in ChunkSizes
    /\ current_pos = 0
    /\ chunks = <<>>
    /\ tpc = "L58"
    /\ slices = <<>>

NextSplit ==
    \/ split_iterate
    \/ split_return

SpecSplit == InitSplit /\ [][NextSplit]_vars

\* BatchProcessor used by two threads: one starts and cancels the runner
\* while the other adds the items, against one worker thread.
NextConcurrent ==
    \/ Configure
    \/ add_item_concurrent
    \/ start_refused
    \/ start_flags /\ processing_thread = 0
    \/ start_thread
    \/ cancel
    \/ Worker

SpecConcurrent == Init /\ [][NextConcurrent]_vars

\* One TextProcessor(max_chunk_size) whose split_into_chunks is called again
\* and again, with any texts of up to MaxText characters
InitRecall ==
    /\ Constructed
    /\ NotProcessing
    /\ NotConverting
    /\ ret = Unobserved
    /\ text = <<>>
    /\ max_chunk_size \in CallSizes
    /\ current_pos = 0
    /\ chunks = <<>>
    /\ tpc = "idle"
    /\ slices = <<>>
    /\ remembered = NoCall

NextRecall ==
    \/ split_call
    \/ split_iterate
    \/ split_return

SpecRecall == InitRecall /\ [][NextRecall]_vars

\* The batch tab: BatchProcessor with _process_batch_item as its processor
\* and a TextProcessor whose chunk size is WordSize.  Items are added at any
\* time, before and while the one worker thread runs; the runner is neither
\* paused nor cancelled.
InitProcess ==
    /\ Constructed
    /\ NotProcessing
    /\ NotConverting
    /\ ret = Unobserved
    /\ text = <<>>
    /\ max_chunk_size = WordSize
    /\ current_pos = 0
    /\ chunks = <<>>
    /\ tpc = "idle"
    /\ slices = <<>>
    /\ remembered = NoCall

NextProcess ==
    \/ Configure
    \/ add_item
    \/ start_refused
    \/ start_flags /\ processing_thread = 0
    \/ start_thread
    \/ Loop
    \/ ProcessItem

SpecProcess == InitProcess /\ [][NextProcess]_vars

\* The batch tab started again and again: the items are added before the
\* first start(), and up to MaxStarts worker threads are created.
NextAgain ==
    \/ Configure
    \/ add_item_append /\ Len(obj) < MaxItems /\ processing_thread = 0
    \/ add_item_put
    \/ start
    \/ Loop
    \/ ProcessItem

SpecAgain == InitProcess /\ [][NextAgain]_vars

\* preprocess_text applied to any text of up to MaxLen characters, and then
\* to what it returned
InitPre ==
    /\ Constructed
    /\ NotProcessing
    /\ NotSplitting
    /\ ret = Unobserved
    /\ pre \in [given : PreTexts, returned : {<<>>}]
    /\ ser = NoSer

NextPre == preprocess

SpecPre == InitPre /\ [][NextPre]_vars

\* TextProcessor(max_chunk_size).split_into_chunks(text) for the sentence of
\* the chunking example, whole or cut off, and any size up to 20
InitSentence ==
    /\ Constructed
    /\ NotProcessing
    /\ NotConverting
    /\ remembered = NoCall
    /\ ret = Unobserved
    /\ text \in SentenceTexts
    /\ max_chunk_size \in SentenceSizes
    /\ current_pos = 0
    /\ chunks = <<>>
    /\ tpc = "L58"
    /\ slices = <<>>

SpecSentence == InitSentence /\ [][NextSplit]_vars

\* Batches run by one worker thread for an observer that may fail: every
\* call of on_item_status_changed returns or raises.  The runner is neither
\* paused nor cancelled.
NextObserver ==
    \/ Configure
    \/ add_item
    \/ start_refused
    \/ start_flags /\ processing_thread = 0
    \/ start_thread
    \/ Worker
    \/ ObserverRaises

SpecObserver == Init /\ [][NextObserver]_vars

\* A call of split_into_chunks followed to its return, with any text of up to
\* MaxLive characters and any size of 1..MaxLive: the thread that called it
\* keeps executing the loop, one iteration after the other.
InitLive ==
    /\ Constructed
    /\ NotProcessing
    /\ NotConverting
    /\ remembered = NoCall
    /\ ret = Unobserved
    /\ text \in LiveTexts
    /\ max_chunk_size \in LiveSizes
    /\ current_pos = 0
    /\ chunks = <<>>
    /\ tpc = "L58"
    /\ slices = <<>>

LiveSplit == InitLive /\ [][NextSplit]_vars /\ WF_vars(NextSplit)

\* Any item turned into a dictionary by to_dict, the dictionary into an item
\* by from_dict, and that item into a dictionary again
InitDict ==
    /\ Constructed
    /\ NotProcessing
    /\ NotSplitting
    /\ ret = Unobserved
    /\ pre = NoPre
    /\ \E it \in AnyItems : ser = [NoSer EXCEPT !.item = <<it>>]

NextDict ==
    \/ item_to_dict
    \/ dict_to_item
    \/ item_to_dict_again

SpecDict == InitDict /\ [][NextDict]_vars

\* ===================================================================
\* Properties
\* ===================================================================

\* The worker threads that are inside the while loop of _process_batch
LoopPositions == {"L159", "L159e", "L161", "L166", "L168", "L170", "L171",
                  "L176", "L179", "L180", "L181", "L185", "L188", "L192"}
LiveLoops == {t \in Threads : pc[t] \in LoopPositions}

\* The item state machine of the specification
AllowedTransitions ==
    {<<PENDING, PROCESSING>>, <<PROCESSING, COMPLETED>>, <<PROCESSING, FAILED>>,
     <<PENDING, CANCELLED>>, <<PROCESSING, CANCELLED>>}

\* C1: every change of an item's status is PENDING->PROCESSING,
\* PROCESSING->COMPLETED, PROCESSING->FAILED, PENDING->CANCELLED or
\* PROCESSING->CANCELLED; in particular a COMPLETED, FAILED or CANCELLED item
\* never changes status again.
C1_OnlyAllowedTransitions ==
    [][\A i \in Ids :
         obj'[i].status # obj[i].status
           => <<obj[i].status, obj'[i].status>> \in AllowedTransitions]_vars

\* C2: at most one worker loop is live, at most one processor call is in
\* flight and at most one item is PROCESSING.
C2_SingleWorker ==
    /\ Cardinality(LiveLoops) <= 1
    /\ Cardinality({t \in Threads : pc[t] = "L176"}) <= 1
    /\ Cardinality({i \in Ids : StatusOf(i) = PROCESSING}) <= 1

RECURSIVE CalledBy(_)
CalledBy(n) == IF n = 0 THEN 0 ELSE completed_calls[n].called + CalledBy(n - 1)

\* C3: a worker thread has called on_batch_completed exactly once when it has
\* left lines 201-202 (unless no observer was installed then) and never before;
\* the calls made by all threads never outnumber the successful start() calls.
C3_BatchCompletedOnce ==
    /\ \A t \in Threads :
         /\ pc[t] = "done"
              => completed_calls[t].called + completed_calls[t].skipped = 1
         /\ pc[t] # "done"
              => completed_calls[t].called = 0 /\ completed_calls[t].skipped = 0
    /\ CalledBy(MaxStarts) <= processing_thread

\* C3 witness: a run that drained its queue and a run that was cancelled have
\* both ended, each with its one call of on_batch_completed.
C3_Witness ==
    /\ processing_thread = 2
    /\ \A t \in 1..2 : pc[t] = "done" /\ completed_calls[t].called = 1
    /\ \E i \in Ids : StatusOf(i) = COMPLETED
    /\ \E i \in Ids : StatusOf(i) = CANCELLED


\* C4: after every successful start() the worker loop eventually exits,
\* is_running becomes False and on_batch_completed is reached; the worker
\* never stays blocked in queue.get().
C4_WorkerTerminates ==
    \A t \in Threads :
      [](pc[t] # "idle" => <>(pc[t] = "done" /\ ~is_running))


\* C5: once cancel() has returned True, and until the caller's next call, no
\* item of the item list is PENDING or PROCESSING.
C5_CancelLeavesNoActiveItem ==
    (CallerIdle /\ ret = Returned("cancel", TRUE))
      => \A k \in 1..Len(items) : StatusOf(items[k]) \notin {PENDING, PROCESSING}

\* The status the specification gives an item for a processor outcome
ExpectedStatus(r) == IF r = "true" THEN COMPLETED ELSE FAILED

\* The worker that holds item k between the raise and the except block
Handling(k) == \E t \in Threads : pc[t] = "L185" /\ local[t].item = k

\* C6: in an uncancelled run, an item whose processor call raised is FAILED
\* with the raised detail in its error and its message, no other item carries
\* an error, and when the worker loop has exited every item of the batch has
\* been processed and has the status of its own processor outcome.
C6_RaiseFailsOnlyThatItem ==
    /\ \A k \in Ids :
         /\ (outcome[k] = "raise" /\ ~Handling(k))
              => /\ StatusOf(k) = FAILED
                 /\ obj[k].error \in Details
                 /\ obj[k].message = ErrorMessage(obj[k].error)
         /\ outcome[k] # "raise"
              => obj[k].error = None /\ obj[k].message = <<>>
    /\ (\E t \in Threads : pc[t] \in {"L198", "L201", "done"})
         => \A k \in Ids :
              outcome[k] # None /\ StatusOf(k) = ExpectedStatus(outcome[k])

\* C6 witness: the run ended; the call for item 1 raised, that for item 2
\* returned true.
C6_Witness ==
    /\ pc[1] = "done"
    /\ Len(obj) >= 2
    /\ outcome[1] = "raise" /\ StatusOf(1) = FAILED
    /\ obj[1].message = ErrorMessage("boom")
    /\ outcome[2] = "true" /\ StatusOf(2) = COMPLETED

BatchCompletedFired == \E t \in Threads : completed_calls[t].called = 1

\* C7: once on_batch_completed has fired for a batch enqueued before start()
\* and not cancelled, every item is COMPLETED if its call returned true and
\* FAILED if it returned false, so get_stats() has pending = processing =
\* cancelled = 0 and completed + failed = total = number of items; results
\* [true, false, true] give completed 2, failed 1, total 3.
C7_StatsAfterBatch ==
    BatchCompletedFired =>
      /\ \A k \in Ids :
           /\ outcome[k] = "true" => StatusOf(k) = COMPLETED
           /\ outcome[k] = "false" => StatusOf(k) = FAILED
           /\ outcome[k] # None
      /\ get_stats.pending = 0
      /\ get_stats.processing = 0
      /\ get_stats.cancelled = 0
      /\ get_stats.total = Len(obj)
      /\ get_stats.completed + get_stats.failed = get_stats.total
      /\ (\A k \in Ids : outcome[k] = "true") => get_stats.completed = Len(obj)
      /\ outcome = <<"true", "false", "true">>
           => get_stats = [total |-> 3, pending |-> 0, processing |-> 0,
                           completed |-> 2, failed |-> 1, cancelled |-> 0]

\* C7 witness: the batch of three with results [true, false, true] is over.
C7_Witness ==
    /\ BatchCompletedFired
    /\ outcome = <<"true", "false", "true">>
    /\ get_stats.completed = 2

\* C8: an item is never set PROCESSING while an item added before it is
\* still PENDING.
C8_EnqueueOrder ==
    [][\A a, b \in Ids :
         (a < b /\ obj[b].status = PENDING /\ obj'[b].status = PROCESSING)
           => obj[a].status # PENDING]_vars


\* The caller's step that ends a refused start()
StartReturnsFalse == CallerIdle /\ ret' = Returned("start", FALSE) /\ ret' # ret
\* The caller's step that begins an accepted start() (lines 107-111)
StartAccepted == CallerIdle /\ cpc'.at = "L112"
\* The caller's step that ends an accepted start() (lines 112-118)
StartReturnsTrue == cpc.at = "L112" /\ cpc'.at = "idle"

\* C9: start() returns False and changes nothing when the runner is running
\* or has no processor; otherwise it sets is_running, clears is_paused,
\* starts one worker thread at the top of its loop and returns True, and the
\* call itself changes no item and dequeues nothing.
C9_StartContract ==
    [][/\ StartReturnsFalse
            => /\ is_running \/ ~processor_func
               /\ UNCHANGED <<runnerVars, workerVars>>
       /\ StartAccepted
            => /\ ~is_running /\ processor_func
               /\ is_running' /\ ~is_paused'
               /\ UNCHANGED <<obj, items, queue, workerVars>>
       /\ StartReturnsTrue
            => /\ ret' = Returned("start", TRUE)
               /\ processing_thread' = processing_thread + 1
               /\ pc[processing_thread'] = "idle"
               /\ pc' = [pc EXCEPT ![processing_thread'] = "L159"]
               /\ UNCHANGED <<runnerVars, local>>
       /\ (CallerIdle /\ (is_running \/ ~processor_func))
            => cpc'.at # "L112"]_vars

\* C9 witness: a start() was accepted and its worker is live; the next
\* start() has just been refused.
C9_Witness ==
    /\ CallerIdle
    /\ ret = Returned("start", FALSE)
    /\ is_running
    /\ processing_thread = 1
    /\ pc[1] \in LoopPositions
    /\ \E i \in Ids : StatusOf(i) = PENDING

\* C10: the item that was in flight when pause() was called is either still
\* with its worker between the call and the status callback, or it is
\* COMPLETED or FAILED as its processor call decided and the callback has run:
\* so it is when the worker comes back to line 161 and sees the paused flag.
C10_PausedItemFinishes ==
    pause_item # NoItem =>
      \/ \E t \in Threads :
           /\ local[t].item = pause_item
           /\ pc[t] \in {"L176", "L179", "L180", "L181", "L185", "L188"}
      \/ /\ outcome[pause_item] # None
         /\ StatusOf(pause_item) = ExpectedStatus(outcome[pause_item])
         /\ notified[pause_item] \in {StatusOf(pause_item), "nobody"}

\* C10 witness: pause() came during the call for item 1; the worker is back at
\* line 161, about to see the paused flag, and item 1 is finished and reported.
C10_Witness ==
    /\ pause_item = 1
    /\ is_paused
    /\ \E t \in Threads : pc[t] = "L161"
    /\ StatusOf(1) \in {COMPLETED, FAILED}
    /\ notified[1] = StatusOf(1)

\* A worker's step that begins a call of processor_func (line 176)
CallBegins(t) == pc[t] # "L176" /\ pc'[t] = "L176"

\* C11: while the runner is paused (pause() has returned True, and neither
\* resume() nor start() has been called since) and no item is PROCESSING, no
\* item goes from PENDING to PROCESSING and no processor call begins.
C11_PauseHoldsNextItem ==
    [][(is_paused /\ \A i \in Ids : StatusOf(i) # PROCESSING)
         => /\ \A i \in Ids :
                 ~(obj[i].status = PENDING /\ obj'[i].status = PROCESSING)
            /\ \A t \in Threads : ~CallBegins(t)]_vars

\* C12: from the return of a cancel() that returned True until the caller's
\* next call returns (so every item that exists was enqueued before the
\* cancel), the queue is empty whenever the caller is idle and no call of
\* processor_func begins.
C12_CancelDiscardsQueue ==
    [][ret = Returned("cancel", TRUE)
         => /\ CallerIdle => queue = <<>>
            /\ \A t \in Threads : ~CallBegins(t)]_vars

\* A step of cancel(): lines 141-142, one iteration of lines 145-149, or
\* lines 152-155
CancelStep == cpc' # cpc /\ {cpc.at, cpc'.at} \cap {"L145", "L152"} # {}

\* C13: no step of cancel() moves a worker thread, ends a processor call or
\* calls on_batch_completed; a worker leaves a processor call (line 176) only
\* by the call's own return or raise, which records the call's outcome; and a
\* worker calls on_batch_completed only from lines 201-202, after its loop
\* has exited and so after any call it had in flight is over.
C13_CancelAtItemBoundary ==
    [][/\ CancelStep => UNCHANGED <<workerVars, outcome, completed_calls>>
       /\ \A t \in Threads :
            /\ (pc[t] = "L176" /\ pc'[t] # "L176")
                 => /\ pc'[t] \in {"L179", "L185"}
                    /\ outcome[local[t].item] = None
                    /\ outcome'[local[t].item] \in Returns \cup {"raise"}
            /\ completed_calls'[t] # completed_calls[t]
                 => /\ pc[t] = "L201" /\ pc'[t] = "done"
                    /\ ~is_running
                    /\ \A k \in Ids : outcome[k] # None \/ k \notin InFlight]_vars

\* C13 witness: cancel() has returned True, the item it found in flight is
\* CANCELLED, and the worker is still inside that processor call.
C13_Witness ==
    /\ CallerIdle
    /\ ret = Returned("cancel", TRUE)
    /\ \E t \in Threads :
         /\ pc[t] = "L176"
         /\ StatusOf(local[t].item) = CANCELLED
         /\ completed_calls[t].called = 0

\* The terminal statuses of an item
Terminal == {COMPLETED, FAILED, CANCELLED}

\* C14: no step changes any attribute (status, progress, message, error) of
\* an item whose status is COMPLETED, FAILED or CANCELLED.
C14_TerminalItemsFrozen ==
    [][\A i \in Ids : StatusOf(i) \in Terminal => obj'[i] = obj[i]]_vars

\* The same for the attributes other than the status
TerminalAttributesFrozen ==
    [][\A i \in Ids :
         StatusOf(i) \in Terminal
           => /\ obj'[i].progress = obj[i].progress
              /\ obj'[i].message = obj[i].message
              /\ obj'[i].error = obj[i].error]_vars

\* A worker's step that runs one of the callback sites of _process_batch
\* (lines 171-172, 181-182, 188-189) for item i
CallbackBy(t, i) ==
    /\ local[t].item = i
    /\ pc[t] \in {"L171", "L181", "L188"}
    /\ pc'[t] # pc[t]

\* The status an item has just been given by the statement before the
\* callback site at which worker t is
StatusWritten(t) ==
    CASE pc[t] = "L171" -> PROCESSING
      [] pc[t] = "L181" -> ResultStatus(local[t].success)
      [] pc[t] = "L188" -> FAILED

\* C15: with an observer installed, every step that changes an item's status
\* either calls on_item_status_changed itself (cancel) or takes the worker to
\* the callback site of that item, and every callback made by the worker
\* shows the observer the status of the transition it reports.
C15_CallbackPerTransition ==
    [][on_item_status_changed
         => \A i \in Ids :
              /\ obj'[i].status # obj[i].status
                   => \/ notified'[i] = obj'[i].status
                      \/ \E t \in Threads :
                           /\ local[t].item = i
                           /\ pc'[t] \in {"L171", "L181", "L188"}
                           /\ pc'[t] # pc[t]
              /\ \A t \in Threads :
                   CallbackBy(t, i) => notified'[i] = StatusWritten(t)]_vars

\* The caller's step that ends a refused cancel()
CancelReturnsFalse == CallerIdle /\ ret' = Returned("cancel", FALSE) /\ ret' # ret
\* The caller's step that begins an accepted cancel() (lines 141-142)
CancelAccepted == CallerIdle /\ cpc'.at \in {"L145", "L152"}

\* C17: a cancel() called while the runner is not running returns False and
\* changes no item, neither the item list nor the queue, no flag, no worker
\* and makes no callback: nothing but the value returned to the caller, so
\* that a second such call leaves the state of the first; it never gets to
\* lines 141-153; and cancel() returns False only when the runner is not
\* running.
C17_CancelWhenIdleIsNoOp ==
    [][/\ CancelReturnsFalse
            => /\ ~is_running
               /\ UNCHANGED <<runnerVars, workerVars, historyVars, cpc>>
       /\ (CallerIdle /\ ~is_running) => ~CancelAccepted]_vars

\* C17 witness: cancel() has just been refused while an item is PENDING and
\* queued; the item, the queue and the flags are as add_item left them.
C17_Witness ==
    /\ CallerIdle
    /\ ret = Returned("cancel", FALSE)
    /\ ~is_running /\ ~is_paused
    /\ queue # <<>>
    /\ \A k \in 1..Len(queue) : StatusOf(queue[k]) = PENDING
    /\ notified[queue[1]] = None

\* The number of items of the item list that are in status s now
CountIn(s) == Cardinality({k \in 1..Len(items) : StatusOf(items[k]) = s})

SliceOf(k) == Slice(text, slices[k][1], slices[k][2])

\* A string of whitespace only (or empty)
Blank(s) == \A j \in 1..Len(s) : s[j] \in Whitespace

\* The iterations whose slice is not blank
Kept == {k \in 1..Len(slices) : ~Blank(SliceOf(k))}

\* C18: every chunk collected so far is non-empty, begins and ends with a
\* character that is not whitespace, and is no longer than max_chunk_size
\* unless it is one space-free run; and there is one chunk for each slice
\* that is not blank, none for a blank slice.
C18_ChunksWellFormed ==
    /\ \A k \in 1..Len(chunks) :
         LET c == chunks[k] IN
           /\ c # <<>>
           /\ c[1] \notin Whitespace
           /\ c[Len(c)] \notin Whitespace
           /\ \/ Len(c) <= max_chunk_size
              \/ \A j \in 1..Len(c) : c[j] # " "
    /\ Len(chunks) = Cardinality(Kept)

\* C18 witness: a call has returned two or more chunks, has dropped a blank
\* slice, and one of its chunks lost whitespace to strip().
C18_Witness ==
    /\ tpc = "L96"
    /\ Len(chunks) >= 2
    /\ \E k \in 1..Len(slices) : Blank(SliceOf(k))
    /\ \E k \in Kept : SliceOf(k)[1] \in Whitespace
    /\ \E k \in Kept : SliceOf(k)[Len(SliceOf(k))] \in Whitespace

\* The characters of s that are not whitespace, in order
NotWhite(c) == c \notin Whitespace
NonWhitespace(s) == SelectSeq(s, NotWhite)

\* The chunks so far, one after the other
RECURSIVE Concat(_, _)
Concat(cs, k) == IF k > Len(cs) THEN <<>> ELSE cs[k] \o Concat(cs, k + 1)

\* The whitespace-trimmed form of the slice of iteration k: the part of the
\* text from the slice's first to its last character that is not whitespace
Trimmed(k) ==
    LET inside == {p \in slices[k][1]..(slices[k][2] - 1) : text[p + 1] \notin Whitespace}
        first == CHOOSE p \in inside : \A q \in inside : p <= q
        last == CHOOSE p \in inside : \A q \in inside : p >= q
    IN  SubSeq(text, first + 1, last + 1)

\* The k-th smallest element of a set of numbers
RECURSIVE Nth(_, _)
Nth(S, k) ==
    LET least == CHOOSE p \in S : \A q \in S : p <= q
    IN  IF k = 1 THEN least ELSE Nth(S \ {least}, k - 1)

\* C19: the slices taken so far are non-empty, start at position 0, follow
\* one another without gap or overlap and end at current_pos, which is the
\* end of the text when the call returns; the chunks are the trimmed forms of
\* the slices that are not blank, in the same order; and the characters of
\* the chunks that are not whitespace are those of the text read so far.
C19_NothingLostOrReordered ==
    /\ \A k \in 1..Len(slices) :
         /\ slices[k][1] < slices[k][2]
         /\ slices[k][1] = IF k = 1 THEN 0 ELSE slices[k - 1][2]
    /\ current_pos = IF slices = <<>> THEN 0 ELSE slices[Len(slices)][2]
    /\ tpc = "L96" => current_pos = Len(text)
    /\ Len(chunks) = Cardinality(Kept)
    /\ \A j \in 1..Len(chunks) : chunks[j] = Trimmed(Nth(Kept, j))
    /\ NonWhitespace(Concat(chunks, 1)) = NonWhitespace(Slice(text, 0, current_pos))

\* C19 witness: a call has returned two chunks for a text whose whitespace
\* was partly trimmed at a boundary and partly kept inside a chunk.
C19_Witness ==
    /\ tpc = "L96"
    /\ Len(chunks) = 2
    /\ Len(Concat(chunks, 1)) < Len(text)
    /\ \E j \in 1..Len(chunks[1]) : chunks[1][j] \in Whitespace
    /\ NonWhitespace(text) # <<>>

\* The largest element of a set of positions, -1 if there is none
LastOf(S) == IF S = {} THEN -1 ELSE CHOOSE p \in S : \A q \in S : p >= q

\* The reference rule for the cut of the window [pos, pos + size) of text t:
\* the whole remainder if it is not longer than size; else just after the
\* last paragraph break of the window if that lies past pos + size/2, else
\* just after the last newline if past pos + size/2, else just after the
\* last ". ", "! " or "? " if past pos + size/2, else just after the last
\* space if past pos + size/3, else at pos + size.  "Past pos + size/d" is
\* taken over the rationals: d * p > d * pos + size.
ReferenceCut(t, size, pos) ==
    LET window == pos..(pos + size - 1)
        pairs == {p \in window : p + 1 \in window}
        paragraph == LastOf({p \in pairs : t[p + 1] = NL /\ t[p + 2] = NL})
        newline == LastOf({p \in window : t[p + 1] = NL})
        sentence == LastOf({p \in pairs : t[p + 1] \in {".", "!", "?"} /\ t[p + 2] = " "})
        blank == LastOf({p \in window : t[p + 1] = " "})
    IN  IF Len(t) - pos <= size THEN Len(t)
        ELSE IF paragraph # -1 /\ 2 * paragraph > 2 * pos + size THEN paragraph + 2
        ELSE IF newline # -1 /\ 2 * newline > 2 * pos + size THEN newline + 1
        ELSE IF sentence # -1 /\ 2 * sentence > 2 * pos + size THEN sentence + 2
        ELSE IF blank # -1 /\ 3 * blank > 3 * pos + size THEN blank + 1
        ELSE pos + size

\* C20: every iteration of split_into_chunks has cut where the reference
\* rule cuts.
C20_CutsFollowReference ==
    \A k \in 1..Len(slices) :
      slices[k][2] = ReferenceCut(text, max_chunk_size, slices[k][1])

\* The rule that made the cut of iteration k, judged by the cut
CutAfter(k, sub) ==
    /\ slices[k][2] < Len(text)
    /\ slices[k][2] < slices[k][1] + max_chunk_size
    /\ Slice(text, slices[k][2] - Len(sub), slices[k][2]) = sub

\* C20 witness: a call has returned after a cut just behind a sentence end,
\* short of the hard cut, in a window that also held a newline, which was not
\* past the midpoint.
C20_Witness ==
    /\ tpc = "L96"
    /\ \E k \in 1..Len(slices) :
         /\ CutAfter(k, <<"!", " ">>)
         /\ \E p \in slices[k][1]..(slices[k][2] - 1) : text[p + 1] = NL

\* --------------------------------------------------------------- C21
\* Worker t's call of _process_batch_item returns in this step
ProcessorReturns(t) == pc[t] = "L176" /\ pc'[t] = "L179"

\* The synthesis calls made for item i, and the audio files named after it
CallsOf(cs, i) == {k \in 1..Len(cs) : cs[k].item = i}
FilesOf(fs, i) == {f \in fs : f.path.stem = i}

\* The call of worker t found no chunk: the file was read and has no text
\* (line 515), or it could not be read (line 513 raised)
FoundNothing(t) ==
    \/ proc[t].at = "L515" /\ proc[t].text_chunks = <<>>
    \/ proc[t].at = "L582"

\* C21: when the item's source yields no chunk (empty or whitespace-only
\* content, or unreadable input), the processor returns False with the
\* "empty or unreadable" message, without any synthesis call and without any
\* file written for the item.
C21_NoChunksFailsAtOnce ==
    [][\A t \in Threads :
         ProcessorReturns(t) /\ FoundNothing(t)
           => /\ local'[t].success = "false"
              /\ obj'[local[t].item].message = EmptyOrUnreadable
              /\ CallsOf(calls', local[t].item) = {}
              /\ FilesOf(files', local[t].item) = {}]_vars

\* The same for the files that can be read: no text in it, no synthesis
EmptyFileFailsAtOnce ==
    [][\A t \in Threads :
         ProcessorReturns(t) /\ proc[t].at = "L515"
           => /\ local'[t].success = "false"
              /\ obj'[local[t].item].message = EmptyOrUnreadable
              /\ CallsOf(calls', local[t].item) = {}
              /\ FilesOf(files', local[t].item) = {}]_vars

\* The file that cannot be read fails with the text of the exception
UnreadableFileMessage ==
    [][\A t \in Threads :
         ProcessorReturns(t) /\ proc[t].at = "L582"
           => /\ local'[t].success = "false"
              /\ obj'[local[t].item].message = ErrorText(ReadError)
              /\ CallsOf(calls', local[t].item) = {}
              /\ FilesOf(files', local[t].item) = {}]_vars

\* --------------------------------------------------------------- C22
\* The synthesis calls made for item i, in the order they were made
CallSeq(cs, i) == SelectSeq(cs, LAMBDA c : c.item = i)

\* C22: an item whose source yields exactly one chunk gets exactly one
\* synthesis call, with that chunk, the options of the run and the item's
\* output file as target; the processor returns True iff that call succeeded
\* and, when it failed, the item's message carries the detail of the service.
C22_SingleChunkSingleCall ==
    [][\A t \in Threads :
         ProcessorReturns(t) /\ Len(proc[t].text_chunks) = 1
           => LET i == local[t].item
                  cs == CallSeq(calls', i)
              IN  /\ Len(cs) = 1
                  /\ cs[1].text = proc[t].text_chunks[1]
                  /\ cs[1].voice_id = Options.voice_id
                  /\ cs[1].model_id = Options.model_id
                  /\ cs[1].stability = Options.stability
                  /\ cs[1].similarity_boost = Options.similarity_boost
                  /\ cs[1].output_path = OutputFile(i)
                  /\ local'[t].success = "true" <=> cs[1].ok
                  /\ ~cs[1].ok => /\ Len(obj'[i].message) = 2
                                  /\ obj'[i].message[2] = cs[1].detail]_vars

\* One item converted by a single call to its output file, another failed by
\* its single call
C22_Witness ==
    \E i, j \in DOMAIN outcome :
        /\ outcome[i] = "true" /\ obj[i].message = Done
        /\ Len(CallSeq(calls, i)) = 1
        /\ [path |-> OutputFile(i), audio |-> Audio(Word)] \in files
        /\ outcome[j] = "false"
        /\ Len(CallSeq(calls, j)) = 1
        /\ Len(obj[j].message) = 2
        /\ obj[j].message[2] \in ApiErrors

Queued == {queue[k] : k \in 1..Len(queue)}

\* C24: no synthesis call is made again: the calls of one item have different
\* targets (one per chunk) and none follows a failed call of the same item;
\* and a FAILED item is neither in the queue nor taken up by a worker again.
C24_NoRetry ==
    /\ \A k1, k2 \in 1..Len(calls) :
         k1 < k2 /\ calls[k1].item = calls[k2].item
           => calls[k1].ok /\ calls[k1].output_path # calls[k2].output_path
    /\ \A i \in Ids :
         StatusOf(i) = FAILED
           => /\ i \notin Queued
              /\ \A t \in Threads :
                   local[t].item = i => pc[t] \in {"L181", "L192"}

\* An item failed by a synthesis call, and a later start() whose worker has
\* come and gone
C24_Witness ==
    \E i \in Ids :
        /\ StatusOf(i) = FAILED
        /\ \E k \in 1..Len(calls) : calls[k].item = i /\ ~calls[k].ok
        /\ processing_thread = MaxStarts
        /\ pc[MaxStarts] = "done"

\* --------------------------------------------------------------- C25
Listed == {items[k] : k \in 1..Len(items)}

\* Item i is on its way between the list and the queue: add_item has appended
\* it and not put it yet, or a worker has taken it from the queue and not
\* looked at its status yet
InTransit(i) ==
    \/ cpc.at = "L73" /\ cpc.i = i
    \/ cpc2.at = "L73" /\ cpc2.i = i
    \/ \E t \in Threads : local[t].item = i /\ pc[t] \in {"L168", "L170"}

\* C25: add_item and cancel are atomic with respect to the worker and to each
\* other: whatever the interleaving, a listed item that is PENDING is in the
\* queue (or on its way to or from it), so that an item added while cancel()
\* runs is CANCELLED or PENDING and queued; and every queued item is listed.
C25_PendingItemsStayQueued ==
    /\ \A i \in Listed : StatusOf(i) = PENDING => i \in Queued \/ InTransit(i)
    /\ Queued \subseteq Listed

\* --------------------------------------------------------------- C26
\* The caller's two steps of add_item: lines 71-72 and lines 73-74
AddItemAppends == CallerIdle /\ cpc'.at = "L73"
AddItemReturns == cpc.at = "L73" /\ cpc'.at = "idle"

\* C26: add_item appends one new item, PENDING with progress 0 and an empty
\* message, to the end of the list, then puts it at the tail of the queue and
\* returns it; it changes no other item, no other queue entry, neither flag
\* and nothing of the worker, whether a batch is running or not.
C26_AddItemFrame ==
    [][/\ AddItemAppends
            => /\ Len(obj') = Len(obj) + 1
               /\ obj'[Len(obj')].status = PENDING
               /\ obj'[Len(obj')].progress = 0
               /\ obj'[Len(obj')].message = <<>>
               /\ \A i \in Ids : obj'[i] = obj[i]
               /\ items' = Append(items, Len(obj'))
               /\ cpc'.i = Len(obj')
               /\ UNCHANGED <<queue, is_running, is_paused, workerVars>>
       /\ AddItemReturns
            => /\ queue' = Append(queue, cpc.i)
               /\ ret' = Returned("add_item", cpc.i)
               /\ UNCHANGED <<obj, items, is_running, is_paused, workerVars>>]_vars

\* add_item has returned its item while the worker is inside the processor
\* call of an earlier item: the new item is PENDING, last in the list and
\* alone in the queue
C26_Witness ==
    /\ CallerIdle
    /\ is_running
    /\ \E i \in Ids :
         /\ ret = Returned("add_item", i)
         /\ i = items[Len(items)]
         /\ obj[i] = [status |-> PENDING, progress |-> 0, message |-> <<>>, error |-> None]
         /\ queue = <<i>>
         /\ \E t \in Threads : pc[t] = "L176" /\ local[t].item \notin {i, NoItem}

\* --------------------------------------------------------------- C27
\* The call of worker t ends on a failure: the file could not be read, it
\* holds no text, or the last synthesis call failed
InputOrSynthesisFailed(t) ==
    \/ proc[t].at = "L582"
    \/ proc[t].at = "L515" /\ proc[t].text_chunks = <<>>
    \/ proc[t].at \in {"L533", "L567"} /\ ~proc[t].success

\* The messages that tell a failure
FailureTexts == {EmptyOrUnreadable[1], "Loi: ", "Loi o phan "}

\* C27: _process_batch_item never raises to the worker loop: an unreadable or
\* missing file, an empty source and a failed synthesis call each make it
\* return False with the failure written to the item's message; the item
\* ends FAILED and the worker leaves its loop only when the queue is empty.
C27_ErrorsStayInTheItem ==
    /\ [](\A t \in Threads : pc[t] \notin {"L185", "L188"})
    /\ [](\A i \in Ids : outcome[i] # "raise" /\ obj[i].error = None)
    /\ [][\A t \in Threads :
            ProcessorReturns(t) /\ InputOrSynthesisFailed(t)
              => /\ local'[t].success = "false"
                 /\ obj'[local[t].item].message # <<>>
                 /\ obj'[local[t].item].message[1] \in FailureTexts]_vars
    /\ [](\A i \in Ids :
            outcome[i] = "false"
              /\ ~(\E t \in Threads : local[t].item = i /\ pc[t] \in {"L179", "L180"})
              => StatusOf(i) = FAILED)
    /\ [][\A t \in Threads :
            pc[t] # "L198" /\ pc'[t] = "L198" => queue = <<>>]_vars

\* An item whose file could not be read is FAILED with the text of the
\* exception, and the same worker has gone on to convert the next item
C27_Witness ==
    \E i, j \in Ids :
        /\ i < j
        /\ StatusOf(i) = FAILED
        /\ obj[i].message = <<"Loi: ", ReadError>>
        /\ StatusOf(j) = COMPLETED
        /\ processing_thread = 1

\* --------------------------------------------------------------- C28
\* The chunks of the call of worker t that have been synthesized
Synthesized(cs, i) == Len(SelectSeq(CallSeq(cs, i), LAMBDA c : c.ok))

\* Progress is an integer of 0..100
ProgressInRange == \A i \in Ids : obj[i].progress \in 0..100

\* Progress never decreases while the item is being processed
ProgressNeverDecreases ==
    [][\A i \in Ids :
         StatusOf(i) = PROCESSING /\ obj'[i].status = PROCESSING
           => obj'[i].progress >= obj[i].progress]_vars

\* C28: in the processing of an item of n > 1 chunks the progress is
\* floor(k / n * 100) once k chunks have been synthesized, so that it is 100
\* after the last one; it is an integer of 0..100 and never decreases while
\* the item is processed.
C28_ProgressAfterEachChunk ==
    /\ []ProgressInRange
    /\ ProgressNeverDecreases
    /\ [][\A t \in Threads :
            ProcessorReturns(t) /\ Len(proc[t].text_chunks) > 1
              => LET i == local[t].item
                     n == Len(proc[t].text_chunks)
                     k == Synthesized(calls', i)
                 IN  obj'[i].progress = (k * 100) \div n]_vars

\* What the code does instead: the progress written is that of the chunks
\* synthesized before the one being converted, so it stays below 100
ProgressBeforeEachChunk ==
    [][\A t \in Threads :
         ProcessorReturns(t) /\ Len(proc[t].text_chunks) > 1
           => LET i == local[t].item
                  n == Len(proc[t].text_chunks)
                  m == Len(CallSeq(calls', i))
              IN  obj'[i].progress = ((m - 1) * 100) \div n]_vars

\* --------------------------------------------------------------- C29
\* The per-chunk files of item i
PartFiles(fs, i) == {f \in fs : f.path.stem = i /\ f.path.part >= 1}

C30_ChunkerDeterministic ==
    /\ [](tpc = "L96" /\ remembered.made /\ remembered.text = text
            => chunks = remembered.chunks)
    /\ [][max_chunk_size' = max_chunk_size]_vars
    /\ [][tpc = "L58" => text' = text]_vars

\* A text of several chunks has been split a second time, after a call with
\* another text in between
C30_Witness ==
    /\ tpc = "L96"
    /\ remembered.made
    /\ remembered.others
    /\ remembered.text = text
    /\ Len(chunks) >= 2

\* The loop of split_iterate returns what split_into_chunks, the same
\* function taken as one call by process_file, computes
SplitCallAgrees == tpc = "L96" => chunks = split_into_chunks(text, max_chunk_size)

\* --------------------------------------------------------------- C31
\* The texts preprocess_text rewrites: one with a tab, with two spaces in a
\* row or with three newlines in a row
HasRun(t, c, n) ==
    \E k \in 1..(Len(t) - n + 1) : \A m \in k..(k + n - 1) : t[m] = c
Rewritten(t) == HasRun(t, "\t", 1) \/ HasRun(t, " ", 2) \/ HasRun(t, NL, 3)

\* C31: preprocess_text is idempotent: whatever the text, preprocessing the text
\* it returned returns that text again.
C31_PreprocessIdempotent ==
    \A n \in 2..Len(pre.returned) : pre.returned[n] = pre.returned[n - 1]

\* A text with a tab next to a space has been preprocessed twice
C31_Witness ==
    /\ Len(pre.returned) >= 2
    /\ \E k \in 1..(Len(pre.given) - 1) :
          /\ pre.given[k] = " "
          /\ pre.given[k + 1] = "\t"
    /\ HasRun(pre.given, NL, 3)

\* --------------------------------------------------------------- C32
\* Every tab of t as a space
Untabbed(t) == [k \in 1..Len(t) |-> IF t[k] = "\t" THEN " " ELSE t[k]]

\* The places of t whose character stays: every character but a space that
\* follows a space and a newline that follows two newlines
Staying(t) ==
    {k \in 1..Len(t) :
        /\ ~(t[k] = " " /\ k > 1 /\ t[k - 1] = " ")
        /\ ~(t[k] = NL /\ k > 2 /\ t[k - 1] = NL /\ t[k - 2] = NL)}

\* The characters of t at the places K, in their order
Pick(t, K) ==
    [j \in 1..Cardinality(K) |->
        t[CHOOSE k \in K : Cardinality({m \in K : m <= k}) = j]]

ExampleCall == text = Sentence /\ max_chunk_size = SentenceSize

\* The place between the characters p and p + 1 of t is the edge of a word:
\* the start or the end of t, or a place next to whitespace
WordEdge(t, p) ==
    \/ p = 0
    \/ p = Len(t)
    \/ p \in 1..(Len(t) - 1) /\ (t[p] \in Whitespace \/ t[p + 1] \in Whitespace)

\* The chunk c is the characters of t between two edges of words
CutAtWordEdges(t, c) ==
    \E a \in 0..Len(t) : \E b \in a..Len(t) :
        /\ WordEdge(t, a)
        /\ WordEdge(t, b)
        /\ c = SubSeq(t, a + 1, b)

\* C33: with max_chunk_size = 20 and the sentence of the example the first
\* chunk is "Hello world.", the text up to the end of its first sentence, and
\* no chunk begins or ends inside a word.
C33_ExampleBreaksAtSentence ==
    ExampleCall =>
        /\ chunks # <<>> => chunks[1] = SubSeq(Sentence, 1, 12)
        /\ \A k \in 1..Len(slices) :
              WordEdge(text, slices[k][1]) /\ WordEdge(text, slices[k][2])
        /\ \A k \in 1..Len(chunks) : CutAtWordEdges(text, chunks[k])
        /\ tpc = "L96" => Len(chunks) > 1

\* The call of the example has returned
C33_Witness ==
    /\ ExampleCall
    /\ tpc = "L96"
    /\ Len(chunks) = 4
    /\ chunks[1] = <<"H", "e", "l", "l", "o", " ", "w", "o", "r", "l", "d", ".">>
    /\ chunks[4] = SubSeq(Sentence, 46, 57)

\* --------------------------------------------------------------- C34
\* No worker thread has been ended by an exception of the observer: every
\* thread started is in its loop or has left it through lines 198-202
WorkerSurvives == \A t \in Threads : pc[t] # "raised"

\* An item whose processor call returned True is not FAILED
SuccessStays == \A i \in Ids : outcome[i] = "true" => StatusOf(i) # FAILED

\* C34: an observer that fails does not crash the worker loop: whichever call of
\* on_item_status_changed raises, the worker thread goes on (to the remaining
\* items, then to is_running = False and on_batch_completed), and an item
\* whose processor call succeeded is not made FAILED by the observer.
C34_ObserverFailureContained ==
    /\ WorkerSurvives
    /\ SuccessStays

\* --------------------------------------------------------------- C35
\* Every iteration made so far ended after the position it started at, and
\* not after the end of the text
EveryIterationAdvances ==
    \A k \in 1..Len(slices) :
        /\ slices[k][2] > slices[k][1]
        /\ slices[k][2] <= Len(text)

\* No more iterations, and no more chunks, than the text has characters
AtMostOnePerCharacter ==
    /\ Len(slices) <= Len(text)
    /\ Len(chunks) <= Len(slices)

\* With max_chunk_size = 0 the iteration at any position before the end of
\* the text ends at that position and collects nothing
NoAdvanceWithSizeZero ==
    (tpc = "L58" /\ current_pos < Len(text)) =>
        /\ ChunkEnd(text, 0, current_pos) = current_pos
        /\ Chunk(text, current_pos, ChunkEnd(text, 0, current_pos)) = <<>>

\* C35: for max_chunk_size >= 1 split_into_chunks terminates: every iteration
\* ends at a chunk_end > current_pos, so that current_pos grows until it is the
\* length of the text and the loop is left, with at most as many chunks as the
\* text has characters; with max_chunk_size = 0 the position does not move.
C35_ChunkerTerminates ==
    /\ [](/\ max_chunk_size >= 1
          /\ EveryIterationAdvances
          /\ AtMostOnePerCharacter
          /\ NoAdvanceWithSizeZero)
    /\ <>(tpc = "L96" /\ current_pos = Len(text))

\* A call that made one iteration, and one chunk, for each character of a
\* text of three or more characters has returned
C35_Witness ==
    /\ tpc = "L96"
    /\ Len(text) >= 3
    /\ Len(slices) = Len(text)
    /\ Len(chunks) = Len(text)

\* --------------------------------------------------------------- C36
\* C36: the runner is never paused without running: is_paused is not True while
\* is_running is False, at any time, the time after the worker loop has ended
\* on an empty queue included.
C36_PausedImpliesRunning == is_paused => is_running

\* --------------------------------------------------------------- C37
\* Worker thread t takes an item from the queue in this step
Dequeues(t) == pc[t] = "L166" /\ pc'[t] = "L168"

\* The threads other than t that hold item i
OtherHolders(t, i) == {u \in Threads \ {t} : local[u].item = i}

\* The queue holds no item twice
NoItemQueuedTwice ==
    \A j, k \in 1..Len(queue) : queue[j] = queue[k] => j = k

\* C37: whatever the caller does (add_item, start, pause, resume, cancel, runs
\* started again), processor_func is called at most once for an item: an item
\* enters the queue once, when add_item creates it, and is taken from it by
\* one worker; the call begins only for an item found PENDING after it was
\* taken, one that no call was made for before, finished or still going on.
C37_ProcessorCalledOncePerItem ==
    [][/\ NoItemQueuedTwice
       /\ \A i \in Queued' \ Queued :
             /\ cpc.at = "L73" /\ cpc.i = i /\ cpc'.at = "idle"
             /\ outcome[i] = None
             /\ \A t \in Threads : local[t].item # i
       /\ \A t \in Threads :
             /\ Dequeues(t) =>
                  /\ local'[t].item \notin Queued'
                  /\ OtherHolders(t, local'[t].item) = {}
                  /\ outcome[local'[t].item] = None
             /\ (pc[t] = "L168" /\ pc'[t] = "L170") =>
                  StatusOf(local[t].item) = PENDING
             /\ CallBegins(t) =>
                  /\ outcome[local[t].item] = None
                  /\ OtherHolders(t, local[t].item) = {}
                  /\ local[t].item \notin Queued]_vars

\* The worker of a second run is calling the processor for one item while
\* another item, which the processor was called for before, is CANCELLED and
\* the worker of the other run is outside the call
C37_Witness ==
    \E t, u \in Threads : \E i, j \in Ids :
        /\ t # u /\ i # j
        /\ pc[u] = "L176" /\ local[u].item = j
        /\ outcome[i] # None
        /\ StatusOf(i) = CANCELLED
        /\ pc[t] \in {"done", "L159", "L198", "L201", "L192", "L179"}

\* --------------------------------------------------------------- C38
\* What neither pause() nor resume() changes: is_running, the items and
\* their fields, the item list, the queue, and the worker threads
ControlFrame == UNCHANGED <<is_running, obj, items, queue, workerVars>>

\* C38: pause() returns True, with is_paused set, if and only if the runner is
\* running, and resume() returns True, with is_paused cleared, if and only if
\* the runner is running and paused; otherwise they return False and change
\* nothing.  Neither changes is_running, an item, the item list or the queue.
C38_PauseResumeContract ==
    [][/\ pause =>
            /\ ControlFrame
            /\ IF is_running
               THEN is_paused' /\ ret' = Returned("pause", TRUE)
               ELSE UNCHANGED is_paused /\ ret' = Returned("pause", FALSE)
       /\ resume =>
            /\ ControlFrame
            /\ IF is_running /\ is_paused
               THEN ~is_paused' /\ ret' = Returned("resume", TRUE)
               ELSE UNCHANGED is_paused /\ ret' = Returned("resume", FALSE)]_vars

\* resume() has been refused for a runner whose worker left the loop while it
\* was paused, with an item that pause() found in the processor
C38_Witness ==
    /\ ret = Returned("resume", FALSE)
    /\ is_paused
    /\ ~is_running
    /\ pause_item # NoItem

\* --------------------------------------------------------------- C39
\* The place of item i in the list l
PlaceIn(l, i) == CHOOSE k \in 1..Len(l) : l[k] = i

\* The statuses clear_completed is to keep
KeptStatuses == {PENDING, PROCESSING, FAILED}

SameSerializedFields(a, b) ==
    /\ a.input_file = b.input_file
    /\ a.output_file = b.output_file
    /\ a.status = b.status
    /\ a.progress = b.progress
    /\ a.message = b.message

\* C40: from_dict(item.to_dict()) is an item with the input_file, output_file,
\* status, progress and message of item, whatever its status, and with error
\* None; and to_dict of that item is the dictionary it was made from.
C40_DictRoundTrip ==
    /\ ~ser.raised
    /\ ser.data # <<>> => DOMAIN ser.data[1] = DOMAIN ser.item[1] \ {"error"}
    /\ ser.back # <<>> =>
          /\ SameSerializedFields(ser.back[1], ser.item[1])
          /\ ser.back[1].error = None
    /\ ser.again # <<>> => ser.again[1] = ser.data[1]

\* A CANCELLED item with an error, half of its chunks done, has gone through
\* to_dict, from_dict and to_dict
C40_Witness ==
    /\ ser.again # <<>>
    /\ ser.item[1].status = CANCELLED
    /\ ser.item[1].error # None
    /\ ser.item[1].progress > 0
    /\ ser.item[1].message # <<>>
    /\ ser.back[1] # ser.item[1]

====
